---- MODULE Spec2Model ----
(***************************************************************************)
(* The stdio JSON-RPC transport client of aws-mcp-server.                   *)
(*                                                                          *)
(* One client instance, driven by one caller task, and the child processes  *)
(* it spawns.  The client's position (pc) moves from one await of the       *)
(* source to the next; what runs between two awaits is one atomic step.     *)
(* The children act concurrently: they answer requests and exit.            *)
(*                                                                          *)
(* cls selects the class that is modelled:                                  *)
(*   "unified" - unified_mcp_client.BaseMCPClient, whose connect,           *)
(*               disconnect, _send_request and _read_response are repeated  *)
(*               line for line in git_mcp_client.GitMCPClient and in        *)
(*               aws_mcp_client.SimpleAWSDocsMCPClient;                     *)
(*   "simple"  - simple_mcp_client.SimpleAWSDocsMCPClient, which has no     *)
(*               timeouts, no cleanup in connect and a one-phase            *)
(*               disconnect.                                                *)
(***************************************************************************)
EXTENDS Naturals, Sequences, FiniteSets

\* Bounds of the model.
MaxProcs == 2       \* processes one instance spawns over its life
MaxId == 3          \* highest request id the instance hands out
MaxIterations == 2  \* largest max_iterations passed to MCPAgent.chat
MaxToolCalls == 3   \* most tool calls in one assistant message

PIDs == 1..MaxProcs
None == 0           \* self.process = None

Classes == {"unified", "simple"}

VARIABLES
    cls,          \* the class of the instance
    pc,           \* position of the caller task inside the client's code
    op,           \* the public operation in progress (or last finished)
    process,      \* self.process: None or the pid of the attached process
    request_id,   \* self.request_id
    nspawned,     \* number of processes spawned so far (pids are 1..nspawned)
    procs,        \* per pid: the child process as the operating system has it
    stdin,        \* per pid: the lines written to the child's standard input
                  \* that it has not taken yet
    stdout,       \* per pid: the lines the child wrote that are not read yet
    trace,        \* events of the operation in progress, in order
    ret,          \* what the last finished operation returned
    sent,         \* the requests with an id written so far, in the order written
    clients,      \* a pair of instances side by side: per instance its process
                  \* and request_id, and the pids it has spawned
    host,         \* the hosting program run_aws_docs.py: where it stands
    agent,        \* MCPAgent.chat: its loop
    tasks,        \* two tasks that use the one instance at the same time: per
                  \* task its operation and where it is suspended
    sdk,          \* an instance of mcp_client.AWSDocsMCPClient
    equiv,        \* the two Git clients driven by the same operations
    ready         \* the last connect returned True and no disconnect began since

vars == <<cls, pc, op, process, request_id, nspawned, procs, stdin, stdout,
          trace, ret, sent, clients, host, agent, tasks, sdk,
                   equiv, ready>>

\* State outside the one client instance whose code the operations below walk
\* through await by await.
outside == <<clients, host, agent, tasks, sdk, equiv>>

----------------------------------------------------------------------------
\* Data

NoProc == [st |-> "unspawned", ign |-> FALSE, closed |-> FALSE, term |-> 0, kill |-> 0]

\* A freshly spawned child; ign: it does not exit on the termination signal.
NewProc(ign) == [st |-> "running", ign |-> ign, closed |-> FALSE, term |-> 0, kill |-> 0]

\* asyncio.subprocess.Process.returncode is None
Running(p) == p # None /\ procs[p].st = "running"

Exited(p) == p # None /\ procs[p].st = "exited"

\* An event of the operation in progress.
Ev(e, p, m, i) == [ev |-> e, p |-> p, m |-> m, id |-> i]

\* A request or notification envelope; id 0 stands for "no id member".
Msg(m, i) == [m |-> m, id |-> i]

\* The mark in a child's input between what the pipe holds and what the
\* transport of the instance still buffers; the child cannot read past it.
Buffered == Msg("<buffered>", 0)

\* A request with an id as the child p finds it on its standard input.
Sent(p, m, i) == [p |-> p, m |-> m, id |-> i]

\* A line on the child's standard output; val is the value of its result or
\* error member ("-" when it has neither).
Line(k, i, v) == [kind |-> k, id |-> i, val |-> v]

\* Kinds of line a child writes in answer to a request:
\*   result    - {"jsonrpc":"2.0","id":i,"result":...}
\*   error     - {"jsonrpc":"2.0","id":i,"error":{"code":..,"message":..}}
\*   empty     - a blank line
\*   garbage   - a line that is not JSON
\*   nonobject - JSON that is not an object and on which the test
\*               `"result" in response` raises TypeError (a number, true)
ReplyKinds == {"result", "error", "empty", "garbage", "nonobject"}

\* Values of the result member of a response:
\*   tools_map   - a mapping with a "tools" member
\*   content_map - a mapping with a "content" member (a list holding one text)
\*   scalar      - a value that is not a mapping (null, a string)
Results == {"tools_map", "content_map", "scalar"}

\* The value of the error member of a response: a mapping with code and message.
ErrorObj == "error_obj"

\* The values a line of kind k can carry.
Vals(k) == IF k = "result" THEN Results
           ELSE IF k = "error" THEN {ErrorObj} ELSE {"-"}

Ret(o, v, i) == [op |-> o, val |-> v, rid |-> i]

NoRet == Ret("none", "none", 0)

\* The two instances MCPAgent holds side by side (aws_client, git_client).
Insts == {"aws", "git"}

\* An instance as __init__ leaves it.
NoClient == [process |-> None, request_id |-> 0, spawned |-> {}]

\* The hosting program before it starts a command.
NoHost == [pc |-> "start", signalled |-> FALSE, sigproc |-> None, sigconn |-> FALSE]

\* MCPAgent outside chat and before its `async with` block is entered:
\* results holds what each client's connect returned, cleaned the clients
\* cleanup_clients has disconnected.
NoAgent == [pc |-> "idle", max_iterations |-> 0, iteration |-> 0, executed |-> 0,
            pending |-> 0, history |-> <<>>, out |-> "none",
            scope |-> "out", results |-> [i \in Insts |-> "none"], cleaned |-> {}]

\* The two tasks that share the instance.
TaskIds == {"a", "b"}

\* A task that has not begun its operation.
NoTask == [op |-> "none", pc |-> "idle", p |-> None, ret |-> NoRet, over |-> FALSE]

\* mcp_client.AWSDocsMCPClient as __init__ leaves it.
NoSdk == [pc |-> "out", stdio |-> "unset", session |-> "unset", server |-> None,
          calls |-> 0, last |-> "none"]

\* A Git client as __init__ leaves it: no process, counter 0.  spawned counts
\* the processes it has started, running and closed tell of the attached
\* child whether it runs and whether its stdin is closing.
FreshGit == [process |-> None, request_id |-> 0, spawned |-> 0,
             running |-> FALSE, closed |-> FALSE]

\* The two Git clients before the first operation.
NoEquiv == [u |-> FreshGit, g |-> FreshGit, ou |-> <<>>, og |-> <<>>,
            ru |-> "none", rg |-> "none"]

ToolMethods == {"tools/list", "tools/call"}

----------------------------------------------------------------------------
Init ==
    /\ cls \in Classes
    /\ pc = "idle"
    /\ op = "none"
    /\ process = None
    /\ request_id = 0
    /\ nspawned = 0
    /\ procs = [p \in PIDs |-> NoProc]
    /\ stdin = [p \in PIDs |-> <<>>]
    /\ stdout = [p \in PIDs |-> <<>>]
    /\ trace = <<>>
    /\ ret = NoRet
    /\ sent = <<>>
    /\ clients = [i \in Insts |-> NoClient]
    /\ host = NoHost
    /\ agent = NoAgent
    /\ tasks = [t \in TaskIds |-> NoTask]
    /\ sdk = NoSdk
    /\ equiv = NoEquiv
    /\ ready = FALSE

----------------------------------------------------------------------------
\* Helpers shared by the operations

\* self.process.stdin.write(line); await drain(): a child that has exited has
\* closed the read end of the pipe, and the write fails (BrokenPipeError,
\* surfaced by drain as ConnectionResetError).
CanWrite(p) == Running(p)

\* _get_next_id without the increment once the counter has left 0.
NextId_Stuck == IF request_id = 0 THEN 1 ELSE request_id

\* _get_next_id that steps over an id.
NextId_Skip == request_id + 2

\* _get_next_id
NextId == request_id + 1

\* What list_tools / call_tool return on a failure: list_tools returns [] on
\* every failure, call_tool (and the typed calls of the simple client) a
\* mapping {"error": <why>}.
FailVal(o, why) == IF o = "list" THEN "empty" ELSE why

\* list_tools / call_tool without the try ... except: the exception reaches
\* the caller.
ExceptReturn_Propagates(o, why) == Ret(o, "raised", 0)

\* The `except Exception` clause of list_tools and call_tool: [] from
\* list_tools, {"error": str(e)} from call_tool.
ExceptReturn(o, why) == Ret(o, FailVal(o, why), 0)

\* OkVal with call_tool decoding the result the way the typed calls of the
\* simple class do.
OkVal_Decoded(o, v) ==
    IF o = "list" THEN (IF v = "tools_map" THEN "tools" ELSE "empty")
    ELSE CASE v = "content_map" -> "decoded"
           [] v = "tools_map" -> "empty_map"
           [] OTHER -> "exception"

\* The value returned for a response whose result member is v.
\*   list_tools: response["result"].get("tools", []); on a value that is not a
\*     mapping .get raises AttributeError and the except clause returns [].
\*   call_tool: response["result"] itself.
\*   the typed calls of the simple class: the decoded text of the first
\*     content item, {} without content, {"error": ...} when .get raises.
OkVal(o, v) ==
    IF o = "list" THEN (IF v = "tools_map" THEN "tools" ELSE "empty")
    ELSE IF cls = "unified" THEN v
    ELSE CASE v = "content_map" -> "decoded"
           [] v = "tools_map" -> "empty_map"
           [] OTHER -> "exception"

\* `except Exception` / `except asyncio.TimeoutError` of connect: the unified
\* classes await self.disconnect() and return False, the simple class returns
\* False at once.
ConnectExcept(tr) ==
    /\ trace' = tr
    /\ IF cls = "unified"
       THEN pc' = "d_entry" /\ ret' = NoRet
       ELSE pc' = "idle" /\ ret' = Ret("connect", "False", 0)

\* AfterResponse without connect's test `"result" in response`: the
\* notification is sent and True returned on whatever was read.
AfterResponse_NoResultTest(kind, rid, val, tr) ==
    IF op = "connect"
    THEN IF CanWrite(process)
         THEN /\ stdin' = [stdin EXCEPT ![process] =
                             Append(@, Msg("notifications/initialized", 0))]
              /\ trace' = Append(tr, Ev("write", process, "notifications/initialized", 0))
              /\ pc' = "idle"
              /\ ret' = Ret("connect", "True", rid)
              /\ ready' = TRUE
         ELSE /\ ConnectExcept(tr)
              /\ UNCHANGED <<stdin, ready>>
    ELSE /\ pc' = "idle"
         /\ ret' = CASE kind = "result" -> Ret(op, OkVal(op, val), rid)
                      [] kind = "nonobject" -> ExceptReturn(op, "exception")
                      [] OTHER -> Ret(op, FailVal(op, "failed"), 0)
         /\ trace' = tr
         /\ UNCHANGED <<stdin, ready>>

\* The code that follows `response = await self._read_response(...)` in
\* connect, list_tools and call_tool, up to the next await or the return.
\* kind is "result" (a mapping with a result member, val its value),
\* "nonobject" (a value on which the test for a result member raises), "error" (a mapping
\* without) or "none" (the empty mapping {}); rid is the id the line carried.
AfterResponse(kind, rid, val, tr) ==
    IF op = "connect"
    THEN IF kind = "result"
         THEN IF CanWrite(process)
              THEN /\ stdin' = [stdin EXCEPT ![process] =
                                  Append(@, Msg("notifications/initialized", 0))]
                   /\ trace' = Append(tr, Ev("write", process, "notifications/initialized", 0))
                   /\ pc' = "idle"
                   /\ ret' = Ret("connect", "True", rid)
                   /\ ready' = TRUE
              ELSE /\ ConnectExcept(tr)
                   /\ UNCHANGED <<stdin, ready>>
         ELSE IF kind = "nonobject"
         THEN /\ ConnectExcept(tr)
              /\ UNCHANGED <<stdin, ready>>
         ELSE /\ pc' = "idle"
              /\ ret' = Ret("connect", "False", 0)
              /\ trace' = tr
              /\ UNCHANGED <<stdin, ready>>
    ELSE /\ pc' = "idle"
         /\ ret' = CASE kind = "result" -> Ret(op, OkVal(op, val), rid)
                      [] kind = "nonobject" -> ExceptReturn(op, "exception")
                      [] OTHER -> Ret(op, FailVal(op, "failed"), 0)
         /\ trace' = tr
         /\ UNCHANGED <<stdin, ready>>

----------------------------------------------------------------------------
\* connect

\* connect that starts its connection's ids afresh.
Connect_FreshCounter ==
    /\ pc = "idle"
    /\ request_id < MaxId
    /\ pc' = "c_spawn"
    /\ op' = "connect"
    /\ trace' = <<>>
    /\ ret' = NoRet
    /\ ready' = FALSE
    /\ request_id' = 0
    /\ UNCHANGED <<cls, outside, sent, process, nspawned, procs, stdin, stdout>>

\* The caller invokes connect.
Connect ==
    /\ pc = "idle"
    /\ request_id < MaxId
    /\ pc' = "c_spawn"
    /\ op' = "connect"
    /\ trace' = <<>>
    /\ ret' = NoRet
    /\ ready' = FALSE
    /\ UNCHANGED <<cls, outside, sent, process, request_id, nspawned, procs, stdin, stdout>>

\* create_subprocess_exec returns a process: self.process = <the new process>.
SpawnOK ==
    /\ pc = "c_spawn"
    /\ nspawned < MaxProcs
    /\ \E ign \in BOOLEAN :
         procs' = [procs EXCEPT ![nspawned + 1] = NewProc(ign)]
    /\ process' = nspawned + 1
    /\ nspawned' = nspawned + 1
    /\ trace' = Append(trace, Ev("spawn", nspawned + 1, "-", 0))
    /\ pc' = "c_init"
    /\ UNCHANGED <<cls, outside, sent, op, request_id, stdin, stdout, ret, ready>>

\* create_subprocess_exec raises (no such executable, permission denied).
SpawnFail ==
    /\ pc = "c_spawn"
    /\ ConnectExcept(trace)
    /\ UNCHANGED <<cls, outside, sent, op, process, request_id, nspawned, procs, stdin, stdout,
                   ready>>

\* wait_for(create_subprocess_exec(...), timeout) times out: no process is
\* handed to the client.  The simple class spawns without a timeout.
SpawnTimeout ==
    /\ pc = "c_spawn"
    /\ cls = "unified"
    /\ ConnectExcept(trace)
    /\ UNCHANGED <<cls, outside, sent, op, process, request_id, nspawned, procs, stdin, stdout,
                   ready>>

\* "id": self._get_next_id(), then _send_request(init_request).
SendInit ==
    /\ pc = "c_init"
    /\ request_id' = NextId
    /\ IF CanWrite(process)
       THEN /\ stdin' = [stdin EXCEPT ![process] = Append(@, Msg("initialize", NextId))]
            /\ sent' = Append(sent, Sent(process, "initialize", NextId))
            /\ trace' = Append(trace, Ev("write", process, "initialize", NextId))
            /\ pc' = "read"
            /\ ret' = ret
       ELSE /\ ConnectExcept(trace)
            /\ UNCHANGED <<stdin, sent>>
    /\ UNCHANGED <<cls, outside, op, process, nspawned, procs, stdout, ready>>

----------------------------------------------------------------------------
\* _read_response, and the continuation of its caller

\* readline returns a line the child wrote.
ReadLine ==
    /\ pc = "read"
    /\ process # None
    /\ stdout[process] # <<>>
    /\ LET l == Head(stdout[process])
           tr == Append(trace, Ev("read", process, l.kind, l.id))
       IN /\ stdout' = [stdout EXCEPT ![process] = Tail(@)]
          /\ CASE l.kind = "result" -> AfterResponse("result", l.id, l.val, tr)
               [] l.kind = "error" -> AfterResponse("error", l.id, l.val, tr)
               [] l.kind = "nonobject" -> AfterResponse("nonobject", 0, "-", tr)
               [] l.kind = "empty" -> AfterResponse("none", 0, "-", tr)
               [] l.kind = "garbage" ->
                     \* json.JSONDecodeError: read one line of stderr
                     /\ pc' = "stderr"
                     /\ trace' = tr
                     /\ UNCHANGED <<stdin, ret, ready>>
    /\ UNCHANGED <<cls, outside, sent, op, process, request_id, nspawned, procs>>

\* readline returns b"" at end of stream: the child has exited and everything
\* it wrote has been read.
ReadEOF ==
    /\ pc = "read"
    /\ Exited(process)
    /\ stdout[process] = <<>>
    /\ AfterResponse("none", 0, "-", Append(trace, Ev("read", process, "eof", 0)))
    /\ UNCHANGED <<cls, outside, sent, op, process, request_id, nspawned, procs, stdout>>

\* A read of stdout that no timeout ends.
ReadTimeout_Unbounded == FALSE /\ UNCHANGED vars

\* ReadTimeout that treats a timeout in list_tools / call_tool the way connect
\* does: the instance disconnects.
ReadTimeout_Disconnects ==
    /\ pc = "read"
    /\ cls = "unified"
    /\ Running(process)
    /\ stdout[process] = <<>>
    /\ ConnectExcept(Append(trace, Ev("timeout", process, "-", 0)))
    /\ UNCHANGED <<cls, outside, sent, op, process, request_id, nspawned, procs, stdin,
                   stdout, ready>>

\* No line arrives in time.  In list_tools and call_tool the timeout of
\* _read_response fires and it returns {}.  In connect the enclosing
\* wait_for(self._read_response(), timeout=10) fires first and connect's
\* `except asyncio.TimeoutError` runs.  The simple class reads without a timeout.
ReadTimeout ==
    /\ pc = "read"
    /\ cls = "unified"
    /\ Running(process)
    /\ stdout[process] = <<>>
    /\ IF op = "connect"
       THEN /\ ConnectExcept(Append(trace, Ev("timeout", process, "-", 0)))
            /\ UNCHANGED <<stdin, ready>>
       ELSE AfterResponse("none", 0, "-", Append(trace, Ev("timeout", process, "-", 0)))
    /\ UNCHANGED <<cls, outside, sent, op, process, request_id, nspawned, procs, stdout>>

\* _read_response that reads stdout again after a line that is not JSON.
StderrDone_Retry ==
    /\ pc = "stderr"
    /\ pc' = "read"
    /\ trace' = Append(trace, Ev("stderr", process, "-", 0))
    /\ UNCHANGED <<cls, outside, sent, op, process, request_id, nspawned, procs, stdin,
                   stdout, ret, ready>>

\* The read of one line of stderr that follows a line that is not JSON ends
\* (a line, end of stream, or in the unified classes its 1 second timeout), and
\* _read_response returns {}.
StderrDone ==
    /\ pc = "stderr"
    /\ AfterResponse("none", 0, "-", Append(trace, Ev("stderr", process, "-", 0)))
    /\ UNCHANGED <<cls, outside, sent, op, process, request_id, nspawned, procs, stdout>>

\* In connect the enclosing wait_for(..., timeout=10) can expire while
\* _read_response is reading stderr.
StderrOuterTimeout ==
    /\ pc = "stderr"
    /\ cls = "unified"
    /\ op = "connect"
    /\ ConnectExcept(Append(trace, Ev("timeout", process, "-", 0)))
    /\ UNCHANGED <<cls, outside, sent, op, process, request_id, nspawned, procs, stdin, stdout,
                   ready>>

----------------------------------------------------------------------------
\* list_tools and call_tool (in the simple class: list_tools and the typed
\* calls search_documentation, read_documentation, recommend)

Method(o) == IF o = "list" THEN "tools/list" ELSE "tools/call"

\* list_tools / call_tool that takes an id only when it has a process to write
\* to.
Call_IdAfterProcessTest(o) ==
    /\ pc = "idle"
    /\ request_id < MaxId
    /\ op' = o
    /\ IF process = None
       THEN /\ pc' = "idle"
            /\ request_id' = request_id
            /\ ret' = ExceptReturn(o, "not_connected")
            /\ trace' = <<>>
            /\ UNCHANGED <<stdin, sent>>
       ELSE IF CanWrite(process)
       THEN /\ request_id' = NextId
            /\ stdin' = [stdin EXCEPT ![process] = Append(@, Msg(Method(o), NextId))]
            /\ sent' = Append(sent, Sent(process, Method(o), NextId))
            /\ trace' = <<Ev("write", process, Method(o), NextId)>>
            /\ pc' = "read"
            /\ ret' = NoRet
       ELSE /\ pc' = "idle"
            /\ request_id' = NextId
            /\ ret' = ExceptReturn(o, "exception")
            /\ trace' = <<>>
            /\ UNCHANGED <<stdin, sent>>
    /\ UNCHANGED <<cls, outside, process, nspawned, procs, stdout, ready>>

\* "id": self._get_next_id(), then _send_request(request): RuntimeError when
\* the instance has no process, a failed write when the child has exited.
Call(o) ==
    /\ pc = "idle"
    /\ request_id < MaxId
    /\ op' = o
    /\ request_id' = NextId
    /\ IF process = None
       THEN /\ pc' = "idle"
            /\ ret' = ExceptReturn(o, "not_connected")
            /\ trace' = <<>>
            /\ UNCHANGED <<stdin, sent>>
       ELSE IF CanWrite(process)
       THEN /\ stdin' = [stdin EXCEPT ![process] = Append(@, Msg(Method(o), NextId))]
            /\ sent' = Append(sent, Sent(process, Method(o), NextId))
            /\ trace' = <<Ev("write", process, Method(o), NextId)>>
            /\ pc' = "read"
            /\ ret' = NoRet
       ELSE /\ pc' = "idle"
            /\ ret' = ExceptReturn(o, "exception")
            /\ trace' = <<>>
            /\ UNCHANGED <<stdin, sent>>
    /\ UNCHANGED <<cls, outside, process, nspawned, procs, stdout, ready>>

ListTools == Call("list")

CallTool == Call("call")

----------------------------------------------------------------------------
\* disconnect (also what __aexit__ runs)

\* disconnect returns: to connect's except clause, which returns False, or to
\* the caller.
DisconnectReturn ==
    /\ pc' = "idle"
    /\ ret' = IF op = "connect" THEN Ret("connect", "False", 0)
                                ELSE Ret("disconnect", "None", 0)

\* `finally: self.process = None`, then the return.  What the child left
\* unread in its output pipe goes with the process object.
Finally ==
    /\ process' = None
    /\ stdout' = [stdout EXCEPT ![process] = <<>>]
    /\ DisconnectReturn

\* Terminate that escalates at once: the kill is sent in place of the
\* termination signal.
Terminate_KillFirst(tr) ==
    IF Running(process)
    THEN /\ procs' = [procs EXCEPT ![process].kill = @ + 1]
         /\ trace' = Append(tr, Ev("kill", process, "-", 0))
         /\ pc' = "d_killwait"
         /\ UNCHANGED <<process, stdout, ret>>
    ELSE /\ trace' = tr
         /\ procs' = procs
         /\ Finally

\* `if self.process.returncode is None:` of the unified disconnect: send the
\* termination signal and wait for the exit, bounded by the grace timeout; when
\* the child has exited already nothing is sent.
Terminate(tr) ==
    IF Running(process)
    THEN /\ procs' = [procs EXCEPT ![process].term = @ + 1]
         /\ trace' = Append(tr, Ev("terminate", process, "-", 0))
         /\ pc' = "d_grace"
         /\ UNCHANGED <<process, stdout, ret>>
    ELSE /\ trace' = tr
         /\ procs' = procs
         /\ Finally

\* The caller invokes disconnect, or leaves an `async with` block.
Disconnect ==
    /\ pc = "idle"
    /\ pc' = "d_entry"
    /\ op' = "disconnect"
    /\ trace' = <<>>
    /\ ret' = NoRet
    /\ ready' = FALSE
    /\ UNCHANGED <<cls, outside, sent, process, request_id, nspawned, procs, stdin, stdout>>

\* DisconnectBody without the test `if self.process:`: on an instance without
\* a process the first attribute access raises.
DisconnectBody_NoProcessTest ==
    /\ pc = "d_entry"
    /\ cls = "unified"
    /\ IF process = None
       THEN /\ pc' = "idle"
            /\ ret' = Ret("disconnect", "raised", 0)
            /\ UNCHANGED <<process, procs, stdout, trace>>
       ELSE IF ~procs[process].closed
       THEN /\ procs' = [procs EXCEPT ![process].closed = TRUE]
            /\ trace' = Append(trace, Ev("close_stdin", process, "-", 0))
            /\ pc' = "d_sleep"
            /\ UNCHANGED <<process, stdout, ret>>
       ELSE Terminate(trace)
    /\ UNCHANGED <<cls, outside, sent, op, request_id, nspawned, stdin, ready>>

\* The body of the unified disconnect up to its first await: nothing when
\* self.process is None; otherwise close stdin if it is not closing and sleep
\* 0.1, or go on to the returncode test.
DisconnectBody ==
    /\ pc = "d_entry"
    /\ cls = "unified"
    /\ IF process = None
       THEN /\ DisconnectReturn
            /\ UNCHANGED <<process, procs, stdout, trace>>
       ELSE IF ~procs[process].closed
       THEN /\ procs' = [procs EXCEPT ![process].closed = TRUE]
            /\ trace' = Append(trace, Ev("close_stdin", process, "-", 0))
            /\ pc' = "d_sleep"
            /\ UNCHANGED <<process, stdout, ret>>
       ELSE Terminate(trace)
    /\ UNCHANGED <<cls, outside, sent, op, request_id, nspawned, stdin, ready>>

\* asyncio.sleep(0.1) is over.
AfterSleep ==
    /\ pc = "d_sleep"
    /\ Terminate(trace)
    /\ UNCHANGED <<cls, outside, sent, op, request_id, nspawned, stdin, ready>>

\* wait_for(self.process.wait(), timeout=3) returns: the child has exited.
GraceExit ==
    /\ pc = "d_grace"
    /\ Exited(process)
    /\ trace' = Append(trace, Ev("wait", process, "-", 0))
    /\ Finally
    /\ UNCHANGED <<cls, outside, sent, op, request_id, nspawned, procs, stdin, ready>>

\* wait_for(self.process.wait(), timeout=3) times out: self.process.kill(),
\* then await self.process.wait() with no timeout.
GraceTimeout ==
    /\ pc = "d_grace"
    /\ Running(process)
    /\ procs' = [procs EXCEPT ![process].kill = @ + 1]
    /\ trace' = trace \o <<Ev("timeout", process, "-", 0), Ev("kill", process, "-", 0)>>
    /\ pc' = "d_killwait"
    /\ UNCHANGED <<cls, outside, sent, op, process, request_id, nspawned, stdin, stdout, ret, ready>>

\* KillWaitExit that does not wait: the process is cleared right after the
\* kill, whether or not the child has exited.
KillWaitExit_NoWait ==
    /\ pc = "d_killwait"
    /\ trace' = Append(trace, Ev("wait", process, "-", 0))
    /\ Finally
    /\ UNCHANGED <<cls, outside, sent, op, request_id, nspawned, procs, stdin, ready>>

\* await self.process.wait() after the kill returns.
KillWaitExit ==
    /\ pc = "d_killwait"
    /\ Exited(process)
    /\ trace' = Append(trace, Ev("wait", process, "-", 0))
    /\ Finally
    /\ UNCHANGED <<cls, outside, sent, op, request_id, nspawned, procs, stdin, ready>>

\* The disconnect of the simple class on an instance with a process:
\* self.process.terminate(), then await self.process.wait() with no timeout.
\* On a child that has exited, terminate sends nothing, or raises
\* ProcessLookupError once asyncio has dropped the process from its transport;
\* the error leaves disconnect with self.process still set.
SimpleDisconnectBody ==
    /\ pc = "d_entry"
    /\ cls = "simple"
    /\ IF process = None
       THEN /\ DisconnectReturn
            /\ UNCHANGED <<process, procs, trace>>
       ELSE IF Running(process)
       THEN /\ procs' = [procs EXCEPT ![process].term = @ + 1]
            /\ trace' = Append(trace, Ev("terminate", process, "-", 0))
            /\ pc' = "sd_wait"
            /\ UNCHANGED <<process, ret>>
       ELSE \/ /\ pc' = "sd_wait"
               /\ UNCHANGED <<process, procs, trace, ret>>
            \/ /\ pc' = "idle"
               /\ ret' = Ret("disconnect", "raised", 0)
               /\ UNCHANGED <<process, procs, trace>>
    /\ UNCHANGED <<cls, outside, sent, op, request_id, nspawned, stdin, stdout, ready>>

\* await self.process.wait() of the simple disconnect returns;
\* self.process = None.
SimpleWaitExit ==
    /\ pc = "sd_wait"
    /\ Exited(process)
    /\ trace' = Append(trace, Ev("wait", process, "-", 0))
    /\ Finally
    /\ UNCHANGED <<cls, outside, sent, op, request_id, nspawned, procs, stdin, ready>>

----------------------------------------------------------------------------
\* The child processes

\* The child takes the next line of its standard input; to a request it
\* writes one line of some kind carrying the request's id, or nothing; to a
\* notification it writes nothing.  The output of a child that the instance
\* no longer references can never be read and is not kept.
PeerReply(p) ==
    /\ Running(p)
    /\ stdin[p] # <<>>
    /\ Head(stdin[p]) # Buffered
    /\ stdin' = [stdin EXCEPT ![p] = Tail(@)]
    /\ LET m == Head(stdin[p])
       IN IF m.id = 0 \/ p # process
          THEN stdout' = stdout
          ELSE \/ stdout' = stdout
               \/ \E k \in ReplyKinds : \E v \in Vals(k) :
                    stdout' = [stdout EXCEPT ![p] = Append(@, Line(k, m.id, v))]
    /\ UNCHANGED <<cls, outside, sent, pc, op, process, request_id, nspawned, procs, trace, ret, ready>>

\* A child that was killed, or that was sent the termination signal and does
\* not ignore it, has to exit.
MustExit(p) ==
    /\ Running(p)
    /\ \/ procs[p].kill > 0
       \/ procs[p].term > 0 /\ ~procs[p].ign

\* The child exits: killed, terminated, at the end of its input, or on its
\* own.  Its input pipe goes with it; what it wrote stays readable.
PeerExit(p) ==
    /\ Running(p)
    /\ procs' = [procs EXCEPT ![p].st = "exited"]
    /\ stdin' = [stdin EXCEPT ![p] = <<>>]
    /\ UNCHANGED <<cls, outside, sent, pc, op, process, request_id, nspawned, stdout, trace, ret, ready>>

----------------------------------------------------------------------------
ClientStep ==
    \/ SpawnOK \/ SpawnFail \/ SpawnTimeout \/ SendInit
    \/ ReadLine \/ ReadEOF \/ ReadTimeout \/ StderrDone \/ StderrOuterTimeout
    \/ DisconnectBody \/ AfterSleep \/ GraceExit \/ GraceTimeout \/ KillWaitExit
    \/ SimpleDisconnectBody \/ SimpleWaitExit

Next ==
    \/ Connect
    \/ ListTools
    \/ CallTool
    \/ Disconnect
    \/ SpawnOK
    \/ SpawnFail
    \/ SpawnTimeout
    \/ SendInit
    \/ ReadLine
    \/ ReadEOF
    \/ ReadTimeout
    \/ StderrDone
    \/ StderrOuterTimeout
    \/ DisconnectBody
    \/ AfterSleep
    \/ GraceExit
    \/ GraceTimeout
    \/ KillWaitExit
    \/ SimpleDisconnectBody
    \/ SimpleWaitExit
    \/ \E p \in PIDs : PeerReply(p)
    \/ \E p \in PIDs : PeerExit(p)

Spec == Init /\ [][Next]_vars

----------------------------------------------------------------------------
\* Two caller tasks on one instance

\* A second task calls list_tools / call_tool on the instance while the first
\* task's call is suspended in `await self.process.stdout.readline()`.  Nothing
\* in the client serialises the two: the second task takes the next id and
\* writes its request; then its own readline either finds the line that has
\* arrived for the first task and consumes it, or, the first task being
\* registered as the waiter of the stream, raises RuntimeError, which the
\* except clause turns into the failure value.  The second task's whole call
\* runs without suspending; what it returns goes to the second task only.
SecondTaskCall(o) ==
    /\ pc = "read"
    /\ request_id < MaxId
    /\ request_id' = NextId
    /\ IF CanWrite(process)
       THEN /\ stdin' = [stdin EXCEPT ![process] = Append(@, Msg(Method(o), NextId))]
            /\ sent' = Append(sent, Sent(process, Method(o), NextId))
            /\ stdout' = [stdout EXCEPT ![process] =
                             IF @ = <<>> THEN @ ELSE Tail(@)]
       ELSE UNCHANGED <<stdin, sent, stdout>>
    /\ UNCHANGED <<cls, outside, pc, op, process, nspawned, procs, trace, ret, ready>>

ConcurrentNext ==
    \/ Next
    \/ SecondTaskCall("list")
    \/ SecondTaskCall("call")

ConcurrentSpec == Init /\ [][ConcurrentNext]_vars

----------------------------------------------------------------------------
\* Two instances side by side (MCPAgent.initialize_clients / cleanup_clients).
\* Each operation is taken as one step: what is followed here is which state
\* an operation touches, not the order of its awaits.

\* The instance other than i.
Other(i) == CHOOSE j \in Insts : j # i

\* _get_next_id on a counter that the instances share (a class attribute).
PairTakeId_Shared(i) ==
    [j \in Insts |-> [clients[j] EXCEPT !.request_id = @ + 1]]

\* self.request_id += 1 of instance i.
PairTakeId(i) == [clients EXCEPT ![i].request_id = @ + 1]

\* The children with pids ps have exited.
PairExited(ps) ==
    [p \in PIDs |-> IF p \in ps THEN [procs[p] EXCEPT !.st = "exited"] ELSE procs[p]]

\* disconnect of instance i: its child is terminated and waited for,
\* self.process = None.
PairDisconnect(i) ==
    /\ clients' = [clients EXCEPT ![i].process = None]
    /\ procs' = PairExited({clients[i].process} \ {None})
    /\ UNCHANGED <<cls, pc, op, process, request_id, nspawned, stdin, stdout,
                   trace, ret, sent, host, agent, tasks, sdk,
                   equiv, ready>>

\* connect of instance i that spawns no process (create_subprocess_exec
\* raises or times out): the except clause disconnects.
PairConnectNoSpawn(i) == PairDisconnect(i)

\* connect of instance i that spawns child p: self.process = p, initialize
\* takes an id; then connect returns True or False with p attached, or its
\* except clause disconnects.
PairConnect(i) ==
    /\ nspawned < MaxProcs
    /\ clients[i].request_id < MaxId
    /\ nspawned' = nspawned + 1
    /\ LET p == nspawned + 1
           c == [PairTakeId(i) EXCEPT ![i].spawned = @ \cup {p}]
       IN \/ /\ clients' = [c EXCEPT ![i].process = p]
             /\ procs' = [procs EXCEPT ![p] = NewProc(FALSE)]
          \/ /\ clients' = [c EXCEPT ![i].process = None]
             /\ procs' = [procs EXCEPT ![p] = [NewProc(FALSE) EXCEPT !.st = "exited"]]
    /\ UNCHANGED <<cls, pc, op, process, request_id, stdin, stdout, trace, ret,
                   sent, host, agent, tasks, sdk,
                   equiv, ready>>

\* list_tools / call_tool of instance i, whatever its outcome (result, failure
\* value, timeout, not connected): an id is taken, nothing else changes.
PairCall(i) ==
    /\ clients[i].request_id < MaxId
    /\ clients' = PairTakeId(i)
    /\ UNCHANGED <<cls, pc, op, process, request_id, nspawned, procs, stdin,
                   stdout, trace, ret, sent, host, agent, tasks, sdk,
                   equiv, ready>>

\* A child exits on its own.
PairPeerExit(p) ==
    /\ Running(p)
    /\ procs' = PairExited({p})
    /\ UNCHANGED <<cls, pc, op, process, request_id, nspawned, stdin, stdout,
                   trace, ret, sent, clients, host, agent, tasks, sdk,
                   equiv, ready>>

PairNext ==
    \/ \E i \in Insts : PairConnect(i)
    \/ \E i \in Insts : PairConnectNoSpawn(i)
    \/ \E i \in Insts : PairCall(i)
    \/ \E i \in Insts : PairDisconnect(i)
    \/ \E p \in PIDs : PairPeerExit(p)

PairSpec == Init /\ [][PairNext]_vars

\* What the scheduling guarantees: a task that can take its next step takes
\* it (every wait of the unified classes is bounded by a timer; the simple
\* class reads stderr with no bound while the child runs), and a child that
\* must exit exits.
FairStep == ClientStep /\ ~(cls = "simple" /\ pc = "stderr" /\ Running(process))

FairSpec ==
    /\ Spec
    /\ WF_vars(FairStep)
    /\ \A p \in PIDs : WF_vars(MustExit(p) /\ PeerExit(p))

----------------------------------------------------------------------------
\* A request that does not fit into the pipe

\* list_tools / call_tool whose request is larger than what the child's input
\* pipe and the transport's buffer take at once: write() queues it and
\* `await self.process.stdin.drain()` suspends until the child has read it.
\* No timeout surrounds _send_request.
CallBlocked(o) ==
    /\ pc = "idle"
    /\ request_id < MaxId
    /\ CanWrite(process)
    /\ op' = o
    /\ request_id' = NextId
    /\ stdin' = [stdin EXCEPT ![process] = Append(@, Msg(Method(o), NextId))]
    /\ sent' = Append(sent, Sent(process, Method(o), NextId))
    /\ trace' = <<Ev("write", process, Method(o), NextId)>>
    /\ pc' = "drain"
    /\ ret' = NoRet
    /\ UNCHANGED <<cls, outside, process, nspawned, procs, stdout, ready>>

\* drain returns: the child has taken the request from its input.
DrainDone ==
    /\ pc = "drain"
    /\ Running(process)
    /\ \A k \in 1..Len(stdin[process]) : stdin[process][k].id # request_id
    /\ pc' = "read"
    /\ UNCHANGED <<cls, outside, sent, op, process, request_id, nspawned, procs,
                   stdin, stdout, trace, ret, ready>>

\* drain raises: the child has exited and the pipe is broken; the except
\* clause of list_tools / call_tool returns.
DrainFail ==
    /\ pc = "drain"
    /\ Exited(process)
    /\ pc' = "idle"
    /\ ret' = ExceptReturn(op, "exception")
    /\ UNCHANGED <<cls, outside, sent, op, process, request_id, nspawned, procs,
                   stdin, stdout, trace, ready>>

\* list_tools / call_tool whose request is larger than the room left in the
\* child's input pipe while what does not fit stays below the transport's
\* high-water mark: write() puts the first part into the pipe and buffers the
\* rest, drain() returns at once (the protocol is not paused), and the read
\* of the response begins.
CallPartial(o) ==
    /\ pc = "idle"
    /\ request_id < MaxId
    /\ CanWrite(process)
    /\ \A k \in 1..Len(stdin[process]) : stdin[process][k] # Buffered
    /\ op' = o
    /\ request_id' = NextId
    /\ stdin' = [stdin EXCEPT ![process] = @ \o <<Buffered, Msg(Method(o), NextId)>>]
    /\ sent' = Append(sent, Sent(process, Method(o), NextId))
    /\ trace' = <<Ev("write", process, Method(o), NextId)>>
    /\ pc' = "read"
    /\ ret' = NoRet
    /\ UNCHANGED <<cls, outside, process, nspawned, procs, stdout, ready>>

\* The child has emptied the pipe: the event loop writes what the transport
\* buffered.
FlushRest(p) ==
    /\ Running(p)
    /\ stdin[p] # <<>>
    /\ Head(stdin[p]) = Buffered
    /\ stdin' = [stdin EXCEPT ![p] = Tail(@)]
    /\ UNCHANGED <<cls, outside, sent, pc, op, process, request_id, nspawned, procs,
                   stdout, trace, ret, ready>>

BackpressureNext ==
    \/ Next
    \/ CallBlocked("list")
    \/ CallBlocked("call")
    \/ DrainDone
    \/ DrainFail
    \/ CallPartial("list")
    \/ CallPartial("call")
    \/ \E p \in PIDs : FlushRest(p)

\* The scheduling of FairSpec, for the program with requests of any size.
FairBackpressureSpec ==
    /\ Init /\ [][BackpressureNext]_vars
    /\ WF_vars(FairStep \/ DrainDone \/ DrainFail)
    /\ \A p \in PIDs : WF_vars(FlushRest(p))
    /\ \A p \in PIDs : WF_vars(MustExit(p) /\ PeerExit(p))

----------------------------------------------------------------------------
\* The hosting program: run_aws_docs.py runs aws_docs_client.main, which runs
\* one command (search_command, read_command, tools_command) under
\* asyncio.run.  The command is one `async with SimpleAWSDocsMCPClient()`
\* block: connect; on False leave the block; else one call, an explicit
\* disconnect, and the end of the block.  host.pc:
\*   start         main has not started the command
\*   entered       inside the block, connect not returned yet
\*   connected     connect returned True, the call not returned yet
\*   called        the call returned, the explicit disconnect not begun
\*   disconnecting the explicit disconnect is under way
\*   leaving       the block is left, __aexit__ not begun
\*   aexit         the disconnect of __aexit__ is under way
\*   unwinding     the disconnect of __aexit__ is under way after a signal
\*   exited        the hosting program has exited

\* disconnect is entered, wherever the caller task stood.
InvokeDisconnect ==
    /\ pc' = "d_entry"
    /\ op' = "disconnect"
    /\ trace' = <<>>
    /\ ret' = NoRet
    /\ ready' = FALSE
    /\ UNCHANGED <<cls, sent, clients, agent, tasks, sdk, equiv, process,
                   request_id, nspawned,
                   procs, stdin, stdout>>

\* asyncio.run(search_command(args)): the block is entered (__aenter__).
HostStart ==
    /\ host.pc = "start"
    /\ host' = [host EXCEPT !.pc = "entered"]
    /\ UNCHANGED <<cls, pc, op, process, request_id, nspawned, procs, stdin,
                   stdout, trace, ret, sent, clients, agent, tasks, sdk,
                   equiv, ready>>

\* `if not await client.connect():`
HostConnect == host.pc = "entered" /\ op = "none" /\ Connect

\* connect has returned: False leaves the block with `return 1`.
HostConnectReturned ==
    /\ host.pc = "entered"
    /\ op = "connect"
    /\ pc = "idle"
    /\ host' = [host EXCEPT !.pc = IF ret.val = "True" THEN "connected" ELSE "leaving"]
    /\ UNCHANGED <<cls, pc, op, process, request_id, nspawned, procs, stdin,
                   stdout, trace, ret, sent, clients, agent, tasks, sdk,
                   equiv, ready>>

\* client.search_documentation / read_documentation / list_tools
HostCall == host.pc = "connected" /\ op = "connect" /\ (CallTool \/ ListTools)

\* The call has returned; its result is printed.
HostCallReturned ==
    /\ host.pc = "connected"
    /\ op \in {"list", "call"}
    /\ pc = "idle"
    /\ host' = [host EXCEPT !.pc = "called"]
    /\ UNCHANGED <<cls, pc, op, process, request_id, nspawned, procs, stdin,
                   stdout, trace, ret, sent, clients, agent, tasks, sdk,
                   equiv, ready>>

\* `await client.disconnect()` at the end of the block.
HostDisconnect ==
    /\ host.pc = "called"
    /\ pc = "idle"
    /\ InvokeDisconnect
    /\ host' = [host EXCEPT !.pc = "disconnecting"]

\* The explicit disconnect has returned (`return 0`) or raised: either way
\* the block is left.
HostDisconnectReturned ==
    /\ host.pc = "disconnecting"
    /\ pc = "idle"
    /\ host' = [host EXCEPT !.pc = "leaving"]
    /\ UNCHANGED <<cls, pc, op, process, request_id, nspawned, procs, stdin,
                   stdout, trace, ret, sent, clients, agent, tasks, sdk,
                   equiv, ready>>

\* __aexit__: await self.disconnect()
HostAexit ==
    /\ host.pc = "leaving"
    /\ pc = "idle"
    /\ InvokeDisconnect
    /\ host' = [host EXCEPT !.pc = "aexit"]

\* Signal in which the interpreter exits from inside the handler without
\* unwinding the task (os._exit in place of sys.exit).
Signal_NoUnwind ==
    /\ ~host.signalled
    /\ host.pc \in {"entered", "connected", "called", "disconnecting", "leaving", "aexit"}
    /\ host' = [pc |-> "exited", signalled |-> TRUE, sigproc |-> process,
                sigconn |-> ready /\ process # None]
    /\ UNCHANGED <<cls, pc, op, process, request_id, nspawned, procs, stdin,
                   stdout, trace, ret, sent, clients, agent, tasks, sdk,
                   equiv, ready>>

\* SIGINT or SIGTERM arrives while the command runs: signal_handler prints,
\* cleanup() sets its flag, sys.exit(0) raises SystemExit in the main thread.
\* asyncio.run cancels the command's task (or the exception travels up the
\* task's own frames): the operation under way is abandoned where it stands
\* (no `except Exception` catches it) and the `async with` block is left
\* through __aexit__, which awaits disconnect.  When the signal arrives while
\* the disconnect of __aexit__ is itself under way, that disconnect is
\* abandoned and nothing runs after it.
Signal ==
    /\ ~host.signalled
    /\ host.pc \in {"entered", "connected", "called", "disconnecting", "leaving", "aexit"}
    /\ IF host.pc = "aexit"
       THEN /\ host' = [pc |-> "exited", signalled |-> TRUE, sigproc |-> process,
                        sigconn |-> ready /\ process # None]
            /\ UNCHANGED <<cls, pc, op, process, request_id, nspawned, procs,
                           stdin, stdout, trace, ret, sent, clients, agent, tasks, sdk,
                   equiv, ready>>
       ELSE /\ host' = [pc |-> "unwinding", signalled |-> TRUE, sigproc |-> process,
                        sigconn |-> ready /\ process # None]
            /\ InvokeDisconnect

\* The disconnect of __aexit__ has returned or raised: asyncio.run returns
\* or raises, main returns, sys.exit.
HostExit ==
    /\ host.pc \in {"aexit", "unwinding"}
    /\ pc = "idle"
    /\ host' = [host EXCEPT !.pc = "exited"]
    /\ UNCHANGED <<cls, pc, op, process, request_id, nspawned, procs, stdin,
                   stdout, trace, ret, sent, clients, agent, tasks, sdk,
                   equiv, ready>>

\* The steps of the client's code and of the children while the hosting
\* program runs.
HostClientStep ==
    /\ host.pc # "exited"
    /\ \/ SpawnOK \/ SpawnFail \/ SendInit
       \/ ReadLine \/ ReadEOF \/ StderrDone
       \/ SimpleDisconnectBody \/ SimpleWaitExit
       \/ \E p \in PIDs : PeerReply(p)
       \/ \E p \in PIDs : PeerExit(p)

HostNext ==
    \/ HostStart
    \/ HostConnect
    \/ HostConnectReturned
    \/ HostCall
    \/ HostCallReturned
    \/ HostDisconnect
    \/ HostDisconnectReturned
    \/ HostAexit
    \/ Signal
    \/ HostExit
    \/ HostClientStep

\* Every command constructs the simple class.
HostInit == Init /\ cls = "simple"

HostSpec == HostInit /\ [][HostNext]_vars

----------------------------------------------------------------------------
\* MCPAgent.chat (llm_agent.py).  agent.pc: idle, loop (at the while test),
\* llm (awaiting the completion), tools (in the for loop over the message's
\* tool calls), done.  history is conversation_history by role; executed
\* counts the execute_tool calls of this chat; out is how chat ended.

AgentOnly == <<cls, pc, op, process, request_id, nspawned, procs, stdin,
               stdout, trace, ret, sent, clients, host, tasks, sdk,
               equiv, ready>>

\* chat(user_message, max_iterations = m): the user message is appended,
\* iteration = 0.
Chat(m) ==
    /\ agent.pc = "idle"
    /\ agent' = [pc |-> "loop", max_iterations |-> m, iteration |-> 0,
                 executed |-> 0, pending |-> 0, history |-> <<"user">>,
                 out |-> "none", scope |-> agent.scope, results |-> agent.results,
                 cleaned |-> agent.cleaned]
    /\ UNCHANGED AgentOnly

\* while iteration < max_iterations: iteration += 1 ... ; after the loop the
\* fixed message is returned.
LoopTest ==
    /\ agent.pc = "loop"
    /\ agent' = IF agent.iteration < agent.max_iterations
                THEN [agent EXCEPT !.iteration = @ + 1, !.pc = "llm"]
                ELSE [agent EXCEPT !.pc = "done", !.out = "max_iterations"]
    /\ UNCHANGED AgentOnly

\* The completion arrives with n tool calls: the assistant message is
\* appended; with none, its content is returned.
LLMReply(n) ==
    /\ agent.pc = "llm"
    /\ agent' = IF n = 0
                THEN [agent EXCEPT !.history = Append(@, "assistant"),
                                   !.pc = "done", !.out = "content"]
                ELSE [agent EXCEPT !.history = Append(@, "assistant"),
                                   !.pending = n, !.pc = "tools"]
    /\ UNCHANGED AgentOnly

\* The completion call raises (the await stands in no try).
LLMRaises ==
    /\ agent.pc = "llm"
    /\ agent' = [agent EXCEPT !.pc = "done", !.out = "raised"]
    /\ UNCHANGED AgentOnly

\* One pass of `for tool_call in message.tool_calls`: the arguments parse,
\* execute_tool returns a string (a result or an error text), the tool
\* message is appended.
ToolCall ==
    /\ agent.pc = "tools"
    /\ agent.pending > 0
    /\ agent' = [agent EXCEPT !.executed = @ + 1, !.pending = @ - 1,
                              !.history = Append(@, "tool"),
                              !.pc = IF agent.pending = 1 THEN "loop" ELSE "tools"]
    /\ UNCHANGED AgentOnly

\* json.loads(tool_call.function.arguments) raises on arguments that are no
\* JSON.
BadArguments ==
    /\ agent.pc = "tools"
    /\ agent.pending > 0
    /\ agent' = [agent EXCEPT !.pc = "done", !.out = "raised"]
    /\ UNCHANGED AgentOnly

ChatNext ==
    \/ \E m \in 0..MaxIterations : Chat(m)
    \/ LoopTest
    \/ \E n \in 0..MaxToolCalls : LLMReply(n)
    \/ LLMRaises
    \/ ToolCall
    \/ BadArguments

ChatSpec == Init /\ [][ChatNext]_vars

----------------------------------------------------------------------------
\* The unified disconnect with failing steps.  Next lets every step of
\* disconnect succeed; under FaultSpec stdin.close(), terminate() and kill() may raise
\* an exception of class Exception, which takes disconnect to its
\* `except Exception` clause, the fallback:
\*     if self.process and self.process.returncode is None:
\*         self.process.kill(); await self.process.wait()
\* in a try whose bare except passes, and then to the finally.

\* Fallback that lets the failure of its kill out of disconnect.
Fallback_Reraises(tr, raises) ==
    IF Running(process)
    THEN IF raises
         THEN /\ trace' = Append(tr, Ev("kill_raised", process, "-", 0))
              /\ pc' = "idle"
              /\ ret' = Ret("disconnect", "raised", 0)
              /\ UNCHANGED <<process, procs, stdout>>
         ELSE /\ procs' = [procs EXCEPT ![process].kill = @ + 1]
              /\ trace' = Append(tr, Ev("kill", process, "-", 0))
              /\ pc' = "d_fbwait"
              /\ UNCHANGED <<process, stdout, ret>>
    ELSE /\ trace' = tr
         /\ procs' = procs
         /\ Finally

\* The except clause of disconnect after the events tr: kill and wait when
\* the child still runs; a kill that raises is passed over.
Fallback(tr, raises) ==
    IF Running(process)
    THEN IF raises
         THEN /\ trace' = Append(tr, Ev("kill_raised", process, "-", 0))
              /\ procs' = procs
              /\ Finally
         ELSE /\ procs' = [procs EXCEPT ![process].kill = @ + 1]
              /\ trace' = Append(tr, Ev("kill", process, "-", 0))
              /\ pc' = "d_fbwait"
              /\ UNCHANGED <<process, stdout, ret>>
    ELSE /\ trace' = tr
         /\ procs' = procs
         /\ Finally

\* self.process.stdin.close() raises.
CloseRaises(raises) ==
    /\ pc = "d_entry"
    /\ cls = "unified"
    /\ process # None
    /\ ~procs[process].closed
    /\ Fallback(Append(trace, Ev("close_raised", process, "-", 0)), raises)
    /\ UNCHANGED <<cls, outside, sent, op, request_id, nspawned, stdin, ready>>

\* self.process.terminate() raises: reached straight from the entry when
\* stdin is closing already, or after the sleep.
TerminateRaises(raises) ==
    /\ cls = "unified"
    /\ \/ pc = "d_entry" /\ process # None /\ procs[process].closed
       \/ pc = "d_sleep"
    /\ Running(process)
    /\ Fallback(Append(trace, Ev("terminate_raised", process, "-", 0)), raises)
    /\ UNCHANGED <<cls, outside, sent, op, request_id, nspawned, stdin, ready>>

\* The grace wait times out and the self.process.kill() of the escalation
\* raises.
GraceKillRaises(raises) ==
    /\ pc = "d_grace"
    /\ Running(process)
    /\ Fallback(trace \o <<Ev("timeout", process, "-", 0),
                           Ev("escalation_raised", process, "-", 0)>>, raises)
    /\ UNCHANGED <<cls, outside, sent, op, request_id, nspawned, stdin, ready>>

\* await self.process.wait() of the fallback returns.
FallbackWaitExit ==
    /\ pc = "d_fbwait"
    /\ Exited(process)
    /\ trace' = Append(trace, Ev("wait", process, "-", 0))
    /\ Finally
    /\ UNCHANGED <<cls, outside, sent, op, request_id, nspawned, procs, stdin, ready>>

\* The life of an instance that is connected and disconnected; list_tools
\* and call_tool are left out, disconnect reads nothing they change.
FaultNext ==
    \/ Connect
    \/ Disconnect
    \/ ClientStep
    \/ \E p \in PIDs : PeerReply(p)
    \/ \E p \in PIDs : PeerExit(p)
    \/ \E raises \in BOOLEAN : CloseRaises(raises)
    \/ \E raises \in BOOLEAN : TerminateRaises(raises)
    \/ \E raises \in BOOLEAN : GraceKillRaises(raises)
    \/ FallbackWaitExit

FaultSpec == Init /\ [][FaultNext]_vars

----------------------------------------------------------------------------
\* Two tasks on one instance of a unified class.  The instance is connected
\* by the steps above; then each task runs one operation, list_tools,
\* call_tool or disconnect, while the other may be suspended in its own.
\* tasks[t].pc is the await at which task t is suspended (read, stderr,
\* d_sleep, d_grace, d_killwait), idle before and done after its operation;
\* tasks[t].p is the process object that await is bound to (the coroutine
\* self.process.stdout.readline() or self.process.wait() was made from it),
\* whatever self.process has become since; tasks[t].over tells that the
\* operation began while the other task was suspended in its own.

\* The task other than t.
Peer(t) == CHOOSE u \in TaskIds : u # t

Suspended(t) == tasks[t].pc \notin {"idle", "done"}

\* Task t has returned r.
TaskDone(t, r) == [tasks EXCEPT ![t].pc = "done", ![t].ret = r]

\* The except handlers meet self.process = None (the other task has cleared
\* it): AttributeError, which the `except Exception` of list_tools /
\* call_tool turns into the failure value; here it reaches the caller.
NoProcessInCall_Propagates(o) == Ret(o, "raised", 0)

\* In _read_response's handler of JSONDecodeError, `self.process.stderr` on
\* an instance whose process the other task has cleared raises
\* AttributeError; the `except Exception` of list_tools / call_tool returns
\* the failure value.
NoProcessInCall(o) == ExceptReturn(o, "exception")

\* The connect steps of the instance, before the tasks begin.
OverlapConnectStep ==
    /\ \A t \in TaskIds : tasks[t].op = "none"
    /\ \/ Connect \/ SpawnOK \/ SpawnFail \/ SpawnTimeout \/ SendInit
       \/ ReadLine \/ ReadEOF \/ ReadTimeout \/ StderrDone \/ StderrOuterTimeout
       \/ DisconnectBody \/ AfterSleep \/ GraceExit \/ GraceTimeout \/ KillWaitExit

\* Task t calls list_tools / call_tool: the id is taken and the request
\* written, and the task awaits the response.  Two calls at the same time are
\* followed under ConcurrentSpec, not here.
TaskCall(t, o) ==
    /\ pc = "idle"
    /\ tasks[t].op = "none"
    /\ tasks[Peer(t)].op \in {"none", "disconnect"}
    /\ request_id < MaxId
    /\ request_id' = NextId
    /\ LET s == [tasks EXCEPT ![t].op = o, ![t].over = Suspended(Peer(t))]
       IN IF process = None
          THEN /\ tasks' = [s EXCEPT ![t].pc = "done",
                                     ![t].ret = ExceptReturn(o, "not_connected")]
               /\ UNCHANGED <<stdin, sent>>
          ELSE IF CanWrite(process)
          THEN /\ stdin' = [stdin EXCEPT ![process] = Append(@, Msg(Method(o), NextId))]
               /\ sent' = Append(sent, Sent(process, Method(o), NextId))
               /\ tasks' = [s EXCEPT ![t].pc = "read", ![t].p = process]
          ELSE /\ tasks' = [s EXCEPT ![t].pc = "done",
                                     ![t].ret = ExceptReturn(o, "exception")]
               /\ UNCHANGED <<stdin, sent>>
    /\ UNCHANGED <<cls, pc, op, process, nspawned, procs, stdout, trace, ret,
                   clients, host, agent, sdk, equiv, ready>>

\* The readline of task t returns a line of the process it reads from.
TaskReadLine(t) ==
    /\ tasks[t].pc = "read"
    /\ stdout[tasks[t].p] # <<>>
    /\ LET l == Head(stdout[tasks[t].p])
           o == tasks[t].op
       IN /\ stdout' = [stdout EXCEPT ![tasks[t].p] = Tail(@)]
          /\ tasks' =
               CASE l.kind = "result" -> TaskDone(t, Ret(o, OkVal(o, l.val), l.id))
                 [] l.kind = "nonobject" -> TaskDone(t, ExceptReturn(o, "exception"))
                 [] l.kind = "garbage" ->
                       IF process = None
                       THEN TaskDone(t, NoProcessInCall(o))
                       ELSE [tasks EXCEPT ![t].pc = "stderr"]
                 [] OTHER -> TaskDone(t, Ret(o, FailVal(o, "failed"), 0))
    /\ UNCHANGED <<cls, pc, op, process, request_id, nspawned, procs, stdin,
                   trace, ret, sent, clients, host, agent, sdk, equiv, ready>>

\* The readline of task t returns b"" (the child has exited), or its timeout
\* fires: _read_response returns {} and the call its failure value.
TaskReadEnds(t) ==
    /\ tasks[t].pc = "read"
    /\ stdout[tasks[t].p] = <<>>
    /\ tasks' = TaskDone(t, Ret(tasks[t].op, FailVal(tasks[t].op, "failed"), 0))
    /\ UNCHANGED <<cls, pc, op, process, request_id, nspawned, procs, stdin,
                   stdout, trace, ret, sent, clients, host, agent, sdk, equiv, ready>>

\* The bounded read of stderr of task t ends.
TaskStderrDone(t) ==
    /\ tasks[t].pc = "stderr"
    /\ tasks' = TaskDone(t, Ret(tasks[t].op, FailVal(tasks[t].op, "failed"), 0))
    /\ UNCHANGED <<cls, pc, op, process, request_id, nspawned, procs, stdin,
                   stdout, trace, ret, sent, clients, host, agent, sdk, equiv, ready>>

\* `finally: self.process = None` in task t, and disconnect returns.
TaskFinally(t) ==
    /\ process' = None
    /\ tasks' = TaskDone(t, Ret("disconnect", "None", 0))

\* `if self.process.returncode is None: self.process.terminate()` and the
\* wait for the exit in task t, whose record so far is s.  With self.process
\* cleared by the other task the test raises AttributeError: the except
\* clause finds no process and the finally returns.  A child that has exited
\* is sent nothing.
TaskTerminate(t, s) ==
    IF process = None
    THEN /\ tasks' = [s EXCEPT ![t].pc = "done", ![t].ret = Ret("disconnect", "None", 0)]
         /\ UNCHANGED <<process, procs>>
    ELSE IF Running(process)
    THEN /\ procs' = [procs EXCEPT ![process].term = @ + 1]
         /\ tasks' = [s EXCEPT ![t].pc = "d_grace", ![t].p = process]
         /\ UNCHANGED process
    ELSE /\ process' = None
         /\ tasks' = [s EXCEPT ![t].pc = "done", ![t].ret = Ret("disconnect", "None", 0)]
         /\ UNCHANGED procs

\* Task t calls disconnect: nothing on an instance without a process; stdin
\* is closed and the task sleeps when it is not closing yet; else the
\* returncode test follows at once.
TaskDisconnect(t) ==
    /\ pc = "idle"
    /\ tasks[t].op = "none"
    /\ ready' = FALSE
    /\ LET s == [tasks EXCEPT ![t].op = "disconnect", ![t].p = process,
                              ![t].over = Suspended(Peer(t))]
       IN IF process = None
          THEN /\ tasks' = [s EXCEPT ![t].pc = "done", ![t].ret = Ret("disconnect", "None", 0)]
               /\ UNCHANGED <<process, procs>>
          ELSE IF ~procs[process].closed
          THEN /\ procs' = [procs EXCEPT ![process].closed = TRUE]
               /\ tasks' = [s EXCEPT ![t].pc = "d_sleep"]
               /\ UNCHANGED process
          ELSE TaskTerminate(t, s)
    /\ UNCHANGED <<cls, pc, op, request_id, nspawned, stdin, stdout, trace, ret,
                   sent, clients, host, agent, sdk, equiv>>

\* asyncio.sleep(0.1) of task t is over.
TaskAfterSleep(t) ==
    /\ tasks[t].pc = "d_sleep"
    /\ TaskTerminate(t, tasks)
    /\ UNCHANGED <<cls, pc, op, request_id, nspawned, stdin, stdout, trace, ret,
                   sent, clients, host, agent, sdk, equiv, ready>>

\* The grace wait of task t returns: the child has exited.
TaskGraceExit(t) ==
    /\ tasks[t].pc = "d_grace"
    /\ Exited(tasks[t].p)
    /\ TaskFinally(t)
    /\ UNCHANGED <<cls, pc, op, request_id, nspawned, procs, stdin, stdout, trace,
                   ret, sent, clients, host, agent, sdk, equiv, ready>>

\* The grace wait of task t times out: self.process.kill() and the wait for
\* the exit; with self.process cleared by the other task the kill raises
\* AttributeError, the except clause finds no process and the finally returns.
TaskGraceTimeout(t) ==
    /\ tasks[t].pc = "d_grace"
    /\ Running(tasks[t].p)
    /\ IF process = None
       THEN /\ tasks' = TaskDone(t, Ret("disconnect", "None", 0))
            /\ UNCHANGED <<process, procs>>
       ELSE /\ procs' = [procs EXCEPT ![process].kill = @ + 1]
            /\ tasks' = [tasks EXCEPT ![t].pc = "d_killwait"]
            /\ UNCHANGED process
    /\ UNCHANGED <<cls, pc, op, request_id, nspawned, stdin, stdout, trace, ret,
                   sent, clients, host, agent, sdk, equiv, ready>>

\* The wait after the kill of task t returns.
TaskKillWaitExit(t) ==
    /\ tasks[t].pc = "d_killwait"
    /\ Exited(tasks[t].p)
    /\ TaskFinally(t)
    /\ UNCHANGED <<cls, pc, op, request_id, nspawned, procs, stdin, stdout, trace,
                   ret, sent, clients, host, agent, sdk, equiv, ready>>

\* A step of the code of task t.
TaskStep(t) ==
    \/ TaskReadLine(t) \/ TaskReadEnds(t) \/ TaskStderrDone(t)
    \/ TaskAfterSleep(t) \/ TaskGraceExit(t) \/ TaskGraceTimeout(t)
    \/ TaskKillWaitExit(t)

OverlapNext ==
    \/ OverlapConnectStep
    \/ \E t \in TaskIds : TaskCall(t, "list")
    \/ \E t \in TaskIds : TaskCall(t, "call")
    \/ \E t \in TaskIds : TaskDisconnect(t)
    \/ \E t \in TaskIds : TaskReadLine(t)
    \/ \E t \in TaskIds : TaskReadEnds(t)
    \/ \E t \in TaskIds : TaskStderrDone(t)
    \/ \E t \in TaskIds : TaskAfterSleep(t)
    \/ \E t \in TaskIds : TaskGraceExit(t)
    \/ \E t \in TaskIds : TaskGraceTimeout(t)
    \/ \E t \in TaskIds : TaskKillWaitExit(t)
    \/ \E p \in PIDs : PeerReply(p)
    \/ \E p \in PIDs : PeerExit(p)

\* Both tasks use an instance of a unified class.
OverlapInit == Init /\ cls = "unified"

OverlapSpec == OverlapInit /\ [][OverlapNext]_vars

----------------------------------------------------------------------------
\* The two Git clients, unified_mcp_client.GitMCPClient (U_) and
\* git_mcp_client.GitMCPClient (G_), each operation taken as one function
\* from the instance's state s and what the world does during the operation:
\*   w.spawn  - "ok", "fail" or "timeout" of create_subprocess_exec
\*   w.dead   - the child exits before the first write
\*   w.line   - what the read of the response finds: a line of some kind, the
\*              timeout, or the end of the stream
\*   w.obeys  - the child exits on the termination signal
\* to the new state, what the instance did to the world, in order (obs), and
\* what it returned.

\* One thing the instance does: e what, x its object (a pid, or the id of
\* the envelope written), m the method written, q the client name written
\* or the timeout of the wait.
Ob(e, x, m, q) == [e |-> e, x |-> x, m |-> m, q |-> q]

Worlds ==
    {w \in [spawn : {"ok", "fail", "timeout"}, dead : BOOLEAN, obeys : BOOLEAN,
            line : [kind : ReplyKinds \cup {"timeout", "eof"},
                    val : Results \cup {ErrorObj, "-"}]] :
        w.line.val \in (IF w.line.kind \in ReplyKinds THEN Vals(w.line.kind) ELSE {"-"})}

\* The disconnect of the standalone class with the kill sent in place of the
\* termination signal.
G_disconnect_KillFirst(s, obeys) ==
    IF s.process = None
    THEN [s |-> s, obs |-> <<>>, ret |-> "None"]
    ELSE [s |-> [s EXCEPT !.process = None, !.running = FALSE, !.closed = FALSE],
          obs |-> (IF s.closed THEN <<>>
                   ELSE <<Ob("close", s.process, "-", "-"), Ob("sleep", 0, "-", "0.1")>>)
                  \o (IF ~s.running THEN <<>>
                      ELSE <<Ob("kill", s.process, "-", "-"), Ob("wait", s.process, "-", "none")>>),
          ret |-> "None"]

\* ---- unified_mcp_client.GitMCPClient (BaseMCPClient)

\* disconnect: nothing without a process; close stdin and sleep unless it is
\* closing; terminate a child that runs and wait for it, kill and wait when
\* the grace wait times out; the process is cleared.
U_disconnect(s, obeys) ==
    IF s.process = None
    THEN [s |-> s, obs |-> <<>>, ret |-> "None"]
    ELSE [s |-> [s EXCEPT !.process = None, !.running = FALSE, !.closed = FALSE],
          obs |-> (IF s.closed THEN <<>>
                   ELSE <<Ob("close", s.process, "-", "-"), Ob("sleep", 0, "-", "0.1")>>)
                  \o (IF ~s.running THEN <<>>
                      ELSE IF obeys
                      THEN <<Ob("terminate", s.process, "-", "-"), Ob("wait", s.process, "-", "3")>>
                      ELSE <<Ob("terminate", s.process, "-", "-"), Ob("wait", s.process, "-", "3"),
                             Ob("kill", s.process, "-", "-"), Ob("wait", s.process, "-", "none")>>),
          ret |-> "None"]

\* connect: spawn (on a failure or timeout the except clause disconnects
\* what is attached); take an id, write initialize, read one line within 10;
\* on a result write the notification and return True; on anything else that
\* was read return False; on a timeout or an exception disconnect and return
\* False.
U_connect(s, w) ==
    IF w.spawn # "ok"
    THEN LET d == U_disconnect(s, w.obeys)
         IN [s |-> d.s, obs |-> d.obs, ret |-> "False"]
    ELSE LET p == s.spawned + 1
             id == s.request_id + 1
             s1 == [process |-> p, request_id |-> id, spawned |-> p,
                    running |-> ~w.dead, closed |-> FALSE]
             sp == <<Ob("spawn", p, "-", "30")>>
             wr == sp \o <<Ob("write", id, "initialize", "git-client"), Ob("read", p, "-", "10")>>
         IN IF w.dead
            THEN LET d == U_disconnect(s1, w.obeys)
                 IN [s |-> d.s, obs |-> sp \o d.obs, ret |-> "False"]
            ELSE CASE w.line.kind = "result" ->
                        [s |-> s1, ret |-> "True",
                         obs |-> Append(wr, Ob("write", 0, "notifications/initialized", "-"))]
                   [] w.line.kind \in {"timeout", "nonobject"} ->
                        LET d == U_disconnect(s1, w.obeys)
                        IN [s |-> d.s, obs |-> wr \o d.obs, ret |-> "False"]
                   [] w.line.kind = "garbage" ->
                        [s |-> s1, obs |-> Append(wr, Ob("stderr", p, "-", "1")), ret |-> "False"]
                   [] w.line.kind = "eof" ->
                        [s |-> [s1 EXCEPT !.running = FALSE], obs |-> wr, ret |-> "False"]
                   [] OTHER -> [s |-> s1, obs |-> wr, ret |-> "False"]

\* What one request and the read of its response do and find: the id is
\* taken first; without a process, or with a child that has exited, the send
\* raises.  found is the kind of what was read, or how the send failed.
U_roundtrip(s, w, method, timeout) ==
    LET id == s.request_id + 1
        s1 == [s EXCEPT !.request_id = id]
        wr == <<Ob("write", id, method, "-"), Ob("read", s.process, "-", timeout)>>
    IN IF s.process = None THEN [s |-> s1, obs |-> <<>>, found |-> "not_connected"]
       ELSE IF ~s.running THEN [s |-> s1, obs |-> <<>>, found |-> "exception"]
       ELSE CASE w.line.kind = "garbage" ->
                   [s |-> s1, obs |-> Append(wr, Ob("stderr", s.process, "-", "1")), found |-> "garbage"]
              [] w.line.kind = "eof" ->
                   [s |-> [s1 EXCEPT !.running = FALSE], obs |-> wr, found |-> "eof"]
              [] OTHER -> [s |-> s1, obs |-> wr, found |-> w.line.kind]

\* list_tools: the tools of a result that is a mapping with tools, [] on
\* everything else.
U_list(s, w) ==
    LET r == U_roundtrip(s, w, "tools/list", "100")
    IN [s |-> r.s, obs |-> r.obs,
        ret |-> IF r.found = "result" /\ w.line.val = "tools_map" THEN "tools" ELSE "empty"]

\* call_tool: the result as it is; {"error": "Failed to call tool ..."} on a
\* response without result; {"error": str(e)} on an exception.
U_call(s, w) ==
    LET r == U_roundtrip(s, w, "tools/call", "30")
    IN [s |-> r.s, obs |-> r.obs,
        ret |-> CASE r.found = "result" -> w.line.val
                  [] r.found = "nonobject" -> "exception"
                  [] r.found \in {"not_connected", "exception"} -> r.found
                  [] OTHER -> "failed"]

\* git_status, git_log, git_diff, git_commit, git_add: the arguments are
\* put together and call_tool is awaited.
U_git(s, w) == U_call(s, w)

\* ---- git_mcp_client.GitMCPClient

\* disconnect: nothing without a process; close stdin and sleep unless it is
\* closing; terminate a child that runs and wait for it, kill and wait when
\* the grace wait times out; the process is cleared.
G_disconnect(s, obeys) ==
    IF s.process = None
    THEN [s |-> s, obs |-> <<>>, ret |-> "None"]
    ELSE [s |-> [s EXCEPT !.process = None, !.running = FALSE, !.closed = FALSE],
          obs |-> (IF s.closed THEN <<>>
                   ELSE <<Ob("close", s.process, "-", "-"), Ob("sleep", 0, "-", "0.1")>>)
                  \o (IF ~s.running THEN <<>>
                      ELSE IF obeys
                      THEN <<Ob("terminate", s.process, "-", "-"), Ob("wait", s.process, "-", "3")>>
                      ELSE <<Ob("terminate", s.process, "-", "-"), Ob("wait", s.process, "-", "3"),
                             Ob("kill", s.process, "-", "-"), Ob("wait", s.process, "-", "none")>>),
          ret |-> "None"]

\* connect: spawn (on a failure or timeout the except clause disconnects
\* what is attached); take an id, write initialize, read one line within 10;
\* on a result write the notification and return True; on anything else that
\* was read return False; on a timeout or an exception disconnect and return
\* False.
G_connect(s, w) ==
    IF w.spawn # "ok"
    THEN LET d == G_disconnect(s, w.obeys)
         IN [s |-> d.s, obs |-> d.obs, ret |-> "False"]
    ELSE LET p == s.spawned + 1
             id == s.request_id + 1
             s1 == [process |-> p, request_id |-> id, spawned |-> p,
                    running |-> ~w.dead, closed |-> FALSE]
             sp == <<Ob("spawn", p, "-", "30")>>
             wr == sp \o <<Ob("write", id, "initialize", "git-mcp-client"), Ob("read", p, "-", "10")>>
         IN IF w.dead
            THEN LET d == G_disconnect(s1, w.obeys)
                 IN [s |-> d.s, obs |-> sp \o d.obs, ret |-> "False"]
            ELSE CASE w.line.kind = "result" ->
                        [s |-> s1, ret |-> "True",
                         obs |-> Append(wr, Ob("write", 0, "notifications/initialized", "-"))]
                   [] w.line.kind \in {"timeout", "nonobject"} ->
                        LET d == G_disconnect(s1, w.obeys)
                        IN [s |-> d.s, obs |-> wr \o d.obs, ret |-> "False"]
                   [] w.line.kind = "garbage" ->
                        [s |-> s1, obs |-> Append(wr, Ob("stderr", p, "-", "1")), ret |-> "False"]
                   [] w.line.kind = "eof" ->
                        [s |-> [s1 EXCEPT !.running = FALSE], obs |-> wr, ret |-> "False"]
                   [] OTHER -> [s |-> s1, obs |-> wr, ret |-> "False"]

\* What one request and the read of its response do and find: the id is
\* taken first; without a process, or with a child that has exited, the send
\* raises.  found is the kind of what was read, or how the send failed.
G_roundtrip(s, w, method, timeout) ==
    LET id == s.request_id + 1
        s1 == [s EXCEPT !.request_id = id]
        wr == <<Ob("write", id, method, "-"), Ob("read", s.process, "-", timeout)>>
    IN IF s.process = None THEN [s |-> s1, obs |-> <<>>, found |-> "not_connected"]
       ELSE IF ~s.running THEN [s |-> s1, obs |-> <<>>, found |-> "exception"]
       ELSE CASE w.line.kind = "garbage" ->
                   [s |-> s1, obs |-> Append(wr, Ob("stderr", s.process, "-", "1")), found |-> "garbage"]
              [] w.line.kind = "eof" ->
                   [s |-> [s1 EXCEPT !.running = FALSE], obs |-> wr, found |-> "eof"]
              [] OTHER -> [s |-> s1, obs |-> wr, found |-> w.line.kind]

\* list_tools: the tools of a result that is a mapping with tools, [] on
\* everything else.
G_list(s, w) ==
    LET r == G_roundtrip(s, w, "tools/list", "10")
    IN [s |-> r.s, obs |-> r.obs,
        ret |-> IF r.found = "result" /\ w.line.val = "tools_map" THEN "tools" ELSE "empty"]

\* call_tool: the result as it is; {"error": "Failed to call tool ..."} on a
\* response without result; {"error": str(e)} on an exception.
G_call(s, w) ==
    LET r == G_roundtrip(s, w, "tools/call", "30")
    IN [s |-> r.s, obs |-> r.obs,
        ret |-> CASE r.found = "result" -> w.line.val
                  [] r.found = "nonobject" -> "exception"
                  [] r.found \in {"not_connected", "exception"} -> r.found
                  [] OTHER -> "failed"]

\* git_status, git_log, git_diff, git_commit, git_add: the arguments are
\* put together and call_tool is awaited.
G_git(s, w) == G_call(s, w)

\* ---- Both clients are given the same operation in the same world.

EquivOnly == <<cls, pc, op, process, request_id, nspawned, procs, stdin, stdout,
               trace, ret, sent, clients, host, agent, tasks, sdk, ready>>

\* Both clients have done an operation: a and b are what it did in each.
Both(a, b) == [u |-> a.s, g |-> b.s, ou |-> a.obs, og |-> b.obs,
               ru |-> a.ret, rg |-> b.ret]

EquivConnect(w) ==
    /\ equiv.u.spawned < MaxProcs
    /\ equiv.u.request_id < MaxId
    /\ equiv' = Both(U_connect(equiv.u, w), G_connect(equiv.g, w))
    /\ UNCHANGED EquivOnly

EquivListTools(w) ==
    /\ equiv.u.request_id < MaxId
    /\ equiv' = Both(U_list(equiv.u, w), G_list(equiv.g, w))
    /\ UNCHANGED EquivOnly

EquivCallTool(w) ==
    /\ equiv.u.request_id < MaxId
    /\ equiv' = Both(U_call(equiv.u, w), G_call(equiv.g, w))
    /\ UNCHANGED EquivOnly

EquivGit(w) ==
    /\ equiv.u.request_id < MaxId
    /\ equiv' = Both(U_git(equiv.u, w), G_git(equiv.g, w))
    /\ UNCHANGED EquivOnly

EquivDisconnect(w) ==
    /\ equiv' = Both(U_disconnect(equiv.u, w.obeys), G_disconnect(equiv.g, w.obeys))
    /\ UNCHANGED EquivOnly

\* The child of both exits between two operations.
EquivPeerExit ==
    /\ equiv.u.running \/ equiv.g.running
    /\ equiv' = [equiv EXCEPT !.u.running = FALSE, !.g.running = FALSE]
    /\ UNCHANGED EquivOnly

EquivNext ==
    \/ \E w \in Worlds : EquivConnect(w)
    \/ \E w \in Worlds : EquivListTools(w)
    \/ \E w \in Worlds : EquivCallTool(w)
    \/ \E w \in Worlds : EquivGit(w)
    \/ \E w \in Worlds : EquivDisconnect(w)
    \/ EquivPeerExit

EquivSpec == Init /\ [][EquivNext]_vars

----------------------------------------------------------------------------
\* mcp_client.AWSDocsMCPClient, the client built on the mcp package, used as
\* `async with AWSDocsMCPClient() as client:`.  sdk.pc: out (before the
\* block), initializing (the transport context is entered, session.initialize
\* awaited), inside (the block's body), left (after __aexit__), failed
\* (__aenter__ raised: the body is not run and __aexit__ not called).
\* sdk.stdio is the state of self.stdio_context, sdk.session of self.session,
\* sdk.server the server process the transport context holds.

SdkOnly == <<cls, pc, op, process, request_id, stdin, stdout, trace, ret, sent,
             clients, host, agent, tasks, equiv, ready>>

\* __aenter__ up to the await of session.initialize: stdio_client(...) is
\* entered, which starts the server, and the session is made from its
\* streams.  When entering the transport raises, the except clause logs and
\* raises again.
SdkEnter ==
    /\ sdk.pc \in {"out", "left", "failed"}
    /\ \/ /\ nspawned < MaxProcs
          /\ nspawned' = nspawned + 1
          /\ \E ign \in BOOLEAN : procs' = [procs EXCEPT ![nspawned + 1] = NewProc(ign)]
          /\ sdk' = [sdk EXCEPT !.pc = "initializing", !.stdio = "entered",
                                !.session = "created", !.server = nspawned + 1]
       \/ /\ sdk' = [sdk EXCEPT !.pc = "failed", !.stdio = "unentered"]
          /\ UNCHANGED <<nspawned, procs>>
    /\ UNCHANGED SdkOnly

\* session.initialize() returns: __aenter__ returns self.
SdkInitialized ==
    /\ sdk.pc = "initializing"
    /\ sdk' = [sdk EXCEPT !.pc = "inside", !.session = "initialized"]
    /\ UNCHANGED <<nspawned, procs>>
    /\ UNCHANGED SdkOnly

\* session.initialize() raises: `except Exception` logs and raises again.
\* Nothing leaves the transport context, and the `async with` statement does
\* not call __aexit__ after a failed __aenter__.
SdkInitRaises ==
    /\ sdk.pc = "initializing"
    /\ sdk' = [sdk EXCEPT !.pc = "failed"]
    /\ UNCHANGED <<nspawned, procs>>
    /\ UNCHANGED SdkOnly

\* list_tools, search_documentation, read_documentation,
\* get_recommendations inside the block: the session's call returns, or it
\* raises and the except clause returns the failure value.
SdkCall ==
    /\ sdk.pc = "inside"
    /\ sdk.calls < MaxId
    /\ \E r \in {"result", "failure"} :
          sdk' = [sdk EXCEPT !.calls = @ + 1, !.last = r]
    /\ UNCHANGED <<nspawned, procs>>
    /\ UNCHANGED SdkOnly

\* The block is left: __aexit__ closes the session and leaves the transport
\* context, which ends the server.
SdkExit ==
    /\ sdk.pc = "inside"
    /\ sdk' = [sdk EXCEPT !.pc = "left", !.session = "closed", !.stdio = "exited"]
    /\ procs' = [procs EXCEPT ![sdk.server].st = "exited"]
    /\ UNCHANGED nspawned
    /\ UNCHANGED SdkOnly

\* A server exits on its own.
SdkServerExit(p) ==
    /\ Running(p)
    /\ procs' = [procs EXCEPT ![p].st = "exited"]
    /\ UNCHANGED <<nspawned, sdk>>
    /\ UNCHANGED SdkOnly

SdkNext ==
    \/ SdkEnter
    \/ SdkInitialized
    \/ SdkInitRaises
    \/ SdkCall
    \/ SdkExit
    \/ \E p \in PIDs : SdkServerExit(p)

SdkSpec == Init /\ [][SdkNext]_vars

----------------------------------------------------------------------------
\* MCPAgent as a context manager (llm_agent.py): __aenter__ runs
\* initialize_clients, __aexit__ runs cleanup_clients.  agent.scope: out,
\* aws (aws_client created, its connect awaited), git (likewise git_client),
\* in (the block's body), cleanup_aws, cleanup_git (in cleanup_clients), left.
\* The clients are the records of `clients`, each operation one step.

ScopeOnly == <<cls, pc, op, process, request_id, stdin, stdout, trace, ret,
               sent, host, tasks, sdk, equiv, ready>>

\* `async with MCPAgent() as agent:` is entered: __aenter__ awaits
\* initialize_clients, which creates the AWS client first.
ScopeEnter ==
    /\ agent.scope = "out"
    /\ agent' = [agent EXCEPT !.scope = "aws"]
    /\ UNCHANGED <<clients, nspawned, procs>>
    /\ UNCHANGED ScopeOnly

\* self.<i>_client = <class>(); await __aenter__(); `if not await
\* connect(...)`: a warning on False, nothing else.  connect spawns no
\* process and returns False; or spawns one and returns True or (the
\* initialize reply is an error or unreadable) False with the process
\* attached; or its except clause disconnects and it returns False.
ScopeConnect(i) ==
    /\ agent.scope = i
    /\ LET next == IF i = "aws" THEN "git" ELSE "in"
           p == nspawned + 1
           c == [PairTakeId(i) EXCEPT ![i].spawned = @ \cup {p}]
       IN \/ /\ agent' = [agent EXCEPT !.scope = next, !.results[i] = "false"]
             /\ UNCHANGED <<clients, nspawned, procs>>
          \/ /\ nspawned < MaxProcs
             /\ nspawned' = p
             /\ \/ /\ clients' = [c EXCEPT ![i].process = p]
                   /\ \E ign \in BOOLEAN : procs' = [procs EXCEPT ![p] = NewProc(ign)]
                   /\ \E r \in {"true", "false"} :
                         agent' = [agent EXCEPT !.scope = next, !.results[i] = r]
                \/ /\ clients' = [c EXCEPT ![i].process = None]
                   /\ procs' = [procs EXCEPT ![p] = [NewProc(FALSE) EXCEPT !.st = "exited"]]
                   /\ agent' = [agent EXCEPT !.scope = next, !.results[i] = "false"]
    /\ UNCHANGED ScopeOnly

\* execute_tool inside the block: a call of one of the clients, whatever its
\* outcome.
ScopeTool(i) ==
    /\ agent.scope = "in"
    /\ clients[i].request_id < MaxId
    /\ clients' = PairTakeId(i)
    /\ UNCHANGED <<agent, nspawned, procs>>
    /\ UNCHANGED ScopeOnly

\* A server exits on its own.
ScopePeerExit(p) ==
    /\ Running(p)
    /\ procs' = PairExited({p})
    /\ UNCHANGED <<agent, clients, nspawned>>
    /\ UNCHANGED ScopeOnly

\* The block is left (its body returned or raised): __aexit__ awaits
\* cleanup_clients.
ScopeExit ==
    /\ agent.scope = "in"
    /\ agent' = [agent EXCEPT !.scope = "cleanup_aws"]
    /\ UNCHANGED <<clients, nspawned, procs>>
    /\ UNCHANGED ScopeOnly

\* cleanup_clients that disconnects only the clients whose connect returned
\* True.
ScopeCleanup_ConnectedOnly(i) ==
    /\ agent.scope = IF i = "aws" THEN "cleanup_aws" ELSE "cleanup_git"
    /\ IF agent.results[i] = "true"
       THEN /\ agent' = [agent EXCEPT !.scope = IF i = "aws" THEN "cleanup_git" ELSE "left",
                                      !.cleaned = @ \cup {i}]
            /\ clients' = [clients EXCEPT ![i].process = None]
            /\ procs' = PairExited({clients[i].process} \ {None})
       ELSE /\ agent' = [agent EXCEPT !.scope = IF i = "aws" THEN "cleanup_git" ELSE "left"]
            /\ UNCHANGED <<clients, procs>>
    /\ UNCHANGED nspawned
    /\ UNCHANGED ScopeOnly

\* `if self.<i>_client: await self.<i>_client.__aexit__(None, None, None)`:
\* __aexit__ awaits disconnect, which terminates and reaps the process the
\* instance holds and clears it.
ScopeCleanup(i) ==
    /\ agent.scope = IF i = "aws" THEN "cleanup_aws" ELSE "cleanup_git"
    /\ agent' = [agent EXCEPT !.scope = IF i = "aws" THEN "cleanup_git" ELSE "left",
                              !.cleaned = @ \cup {i}]
    /\ clients' = [clients EXCEPT ![i].process = None]
    /\ procs' = PairExited({clients[i].process} \ {None})
    /\ UNCHANGED nspawned
    /\ UNCHANGED ScopeOnly

ScopeNext ==
    \/ ScopeEnter
    \/ \E i \in Insts : ScopeConnect(i)
    \/ \E i \in Insts : ScopeTool(i)
    \/ \E p \in PIDs : ScopePeerExit(p)
    \/ ScopeExit
    \/ \E i \in Insts : ScopeCleanup(i)

ScopeSpec == Init /\ [][ScopeNext]_vars

----------------------------------------------------------------------------
\* Properties

\* The positions of the caller task inside disconnect.
DisconnectPcs == {"d_entry", "d_sleep", "d_grace", "d_killwait", "sd_wait"}

\* The step is the return of a disconnect that did not raise.
DisconnectReturns == pc \in DisconnectPcs /\ pc' = "idle" /\ ret'.val # "raised"

\* C1: whenever connect of the unified classes has returned False, the
\* instance has no process attached and no process spawned by that connect is
\* still running.
C1_FailedConnectCleansUp ==
    (cls = "unified" /\ pc = "idle" /\ ret = Ret("connect", "False", 0)) =>
        /\ process = None
        /\ \A i \in 1..Len(trace) : trace[i].ev = "spawn" => ~Running(trace[i].p)

\* C2: when disconnect returns on an instance that had a process, that
\* process has exited and the instance no longer references it.
C2_DisconnectReaps ==
    [][(DisconnectReturns /\ process # None) =>
           (process' = None /\ procs'[process].st = "exited")]_vars

\* C2 witness: a disconnect has returned after killing a child that ignored
\* the termination signal.
C2_Witness ==
    /\ pc = "idle" /\ ret = Ret("disconnect", "None", 0) /\ process = None
    /\ \E p \in PIDs : procs[p].ign /\ procs[p].kill = 1 /\ procs[p].st = "exited"

\* C3: every spawned process gets the shutdown sequence exactly once: it is
\* sent the termination signal at most once, and once a disconnect has returned
\* no spawned process is left running.
C3_ShutdownExactlyOnce ==
    \A p \in PIDs :
        /\ procs[p].term <= 1
        /\ (pc = "idle" /\ ret = Ret("disconnect", "None", 0)) => ~Running(p)

\* C4: disconnect on an instance without a process sends no signal, closes
\* nothing, raises nothing and leaves the instance as it was.
C4_DisconnectIdempotent ==
    [][(pc = "d_entry" /\ op = "disconnect" /\ process = None /\ pc' # pc) =>
           /\ pc' = "idle"
           /\ ret' = Ret("disconnect", "None", 0)
           /\ trace' = <<>>
           /\ UNCHANGED <<process, request_id, nspawned, procs, stdin, stdout>>]_vars

\* C4 witness: a disconnect that did nothing has returned on an instance that
\* an earlier disconnect had detached from its process.
C4_Witness ==
    /\ pc = "idle" /\ ret = Ret("disconnect", "None", 0) /\ trace = <<>>
    /\ process = None
    /\ \E p \in PIDs : procs[p].term = 1

\* C5 (unified classes): a kill follows the termination signal and the expiry
\* of the grace wait; a child that exits within the grace wait is not killed;
\* after a kill the process is cleared only once the child has exited.
C5_KillOnlyAfterGrace ==
    /\ [](cls = "unified" =>
            /\ \A p \in PIDs : procs[p].kill > 0 => procs[p].term > 0
            /\ \A i \in 1..Len(trace) : trace[i].ev = "kill" =>
                  /\ i >= 3
                  /\ trace[i - 1] = Ev("timeout", trace[i].p, "-", 0)
                  /\ trace[i - 2] = Ev("terminate", trace[i].p, "-", 0))
    /\ [][cls = "unified" =>
            /\ (pc = "d_grace" /\ Exited(process) /\ pc' # pc) =>
                   (procs'[process].kill = 0 /\ process' = None)
            /\ (pc = "d_killwait" /\ pc' # pc) =>
                   (Exited(process) /\ process' = None)]_vars

\* C5 witness: a disconnect ran the whole escalation.
C5_Witness ==
    /\ cls = "unified" /\ pc = "idle" /\ op = "disconnect" /\ nspawned = 1
    /\ trace = <<Ev("close_stdin", 1, "-", 0), Ev("terminate", 1, "-", 0),
                 Ev("timeout", 1, "-", 0), Ev("kill", 1, "-", 0), Ev("wait", 1, "-", 0)>>

\* C6: in every class, a disconnect that has begun returns.
C6_DisconnectReturns == (pc = "d_entry") ~> (pc = "idle")

\* C7: every live process the instance has spawned is the one it references.
C7_OneLiveProcess == \A p \in PIDs : Running(p) => p = process

C9_ToolRequestsOnlyWhenReady ==
    [][(trace' # trace /\ trace' # <<>>
          /\ trace'[Len(trace')].ev = "write"
          /\ trace'[Len(trace')].m \in ToolMethods) => ready]_vars

\* C10 (unified classes): call_tool on an instance that is not ready writes
\* nothing, waits for nothing and returns the not-connected failure value.
C10_CallFailsFastWhenNotReady ==
    [][(cls = "unified" /\ pc = "idle" /\ op' = "call" /\ request_id' # request_id
          /\ ~ready) =>
           /\ stdin' = stdin
           /\ pc' = "idle"
           /\ ret' = Ret("call", "not_connected", 0)]_vars

----------------------------------------------------------------------------
\* C11: the ids of the requests an instance writes are strictly increasing in
\* the order written, over the whole life of the instance (connects, calls and
\* disconnects in any order); in particular no id is written twice on one
\* connection.
C11_IdsStrictlyIncreasing ==
    \A i, j \in 1..Len(sent) : i < j => sent[i].id < sent[j].id

\* A call was written on one connection and a later connection was opened.
C11_Witness ==
    \E i, j \in 1..Len(sent) :
        /\ i < j
        /\ sent[i].m \in ToolMethods
        /\ sent[j].p # sent[i].p

----------------------------------------------------------------------------
\* The requests with an id that child p has been written, in order, and the
\* list_tools / call_tool requests among them.
SentTo(p) == SelectSeq(sent, LAMBDA e : e.p = p)

CallsTo(p) == SelectSeq(sent, LAMBDA e : e.p = p /\ e.m \in ToolMethods)

----------------------------------------------------------------------------
\* A list_tools / call_tool request of a unified instance is written and the
\* call has not returned.
PendingCall == cls = "unified" /\ op \in {"list", "call"} /\ pc \in {"read", "stderr"}

\* C13: in the unified classes every list_tools / call_tool request that was
\* written ends, whatever the peer does, with the call returning one outcome
\* to the caller (a result, or a failure value): while the call is pending a
\* step of _read_response can always be taken, the step after the read of
\* stdout either returns or starts the one bounded read of stderr, the step
\* after that returns; and the outcome reported stays the reported one until
\* the caller starts the next operation.
C13_CallEndsInOneOutcome ==
    /\ [](PendingCall => ENABLED (ReadLine \/ ReadEOF \/ ReadTimeout \/ StderrDone))
    /\ [][(PendingCall /\ pc' # pc)
             => \/ pc = "read" /\ pc' = "stderr"
                \/ pc' = "idle" /\ ret'.op = op /\ op' = op]_vars
    /\ [][(pc = "idle" /\ ret.op \in {"list", "call"} /\ ret' # ret)
             => (pc' # "idle" \/ request_id' # request_id)]_vars

\* A call of a unified instance returned after its read timed out.
C13_Witness ==
    /\ cls = "unified"
    /\ pc = "idle"
    /\ ret.op = "call"
    /\ Len(trace) = 2
    /\ trace[2].ev = "timeout"

----------------------------------------------------------------------------
\* The values with which connect, list_tools and call_tool (and the typed
\* calls of the simple class) report success.
SuccessVals == {"True", "tools", "decoded", "empty_map"} \cup Results

\* C14: a call (the handshake, list_tools, call_tool) reports success only on
\* a response whose id equals the id of the request the call wrote; the late
\* answer to an earlier call that timed out is never returned as the result
\* of the current call.
C14_SuccessHasMatchingId ==
    (pc = "idle" /\ ret.val \in SuccessVals)
        => \E i \in 1..Len(trace) :
              /\ trace[i].ev = "write"
              /\ trace[i].id > 0
              /\ trace[i].id = ret.rid

----------------------------------------------------------------------------
\* C15: when the line call_tool of a unified class reads is a response with a
\* result member, call_tool returns exactly the value of that member,
\* whatever its shape.
C15_ResultReturnedVerbatim ==
    [][(/\ cls = "unified"
        /\ op = "call"
        /\ pc = "read"
        /\ pc' = "idle"
        /\ process # None
        /\ stdout[process] # <<>>
        /\ Head(stdout[process]).kind = "result")
       => ret' = Ret("call", Head(stdout[process]).val, Head(stdout[process]).id)]_vars

\* call_tool of a unified class returned a result with content.
C15_Witness ==
    /\ cls = "unified"
    /\ pc = "idle"
    /\ ret.op = "call"
    /\ ret.val = "content_map"
    /\ trace[Len(trace)].ev = "read"

----------------------------------------------------------------------------
\* What call_tool returns when its read timed out.
TimeoutFailure == Ret("call", FailVal("call", "failed"), 0)

\* C16: when the line call_tool of a unified class reads is a response with
\* an error member, the failure value call_tool returns carries that error
\* (its code and message) unchanged and differs from the failure value
\* returned on a timeout.
C16_ErrorCarried ==
    [][(/\ cls = "unified"
        /\ op = "call"
        /\ pc = "read"
        /\ pc' = "idle"
        /\ process # None
        /\ stdout[process] # <<>>
        /\ Head(stdout[process]).kind = "error")
       => /\ ret'.val = Head(stdout[process]).val
          /\ ret' # TimeoutFailure]_vars

----------------------------------------------------------------------------
\* C17: connect, list_tools and call_tool of the unified classes never let an
\* exception reach the caller, in any state and whatever the peer does (error
\* envelope, timeout, line that is not JSON, JSON that is not an object, end of
\* stream, failed write): connect returns a boolean, list_tools a sequence,
\* call_tool a result or a failure mapping.
C17_NoExceptionPropagates ==
    (cls = "unified" /\ pc = "idle")
        => /\ ret.op \in {"none", "connect", "list", "call", "disconnect"}
           /\ ret.op = "connect" => ret.val \in {"True", "False"}
           /\ ret.op = "list" => ret.val \in {"tools", "empty"}
           /\ ret.op = "call" =>
                 ret.val \in Results \cup {"failed", "not_connected", "exception"}

\* call_tool of a unified class returned from its except clause after reading
\* JSON that is not an object.
C17_Witness ==
    /\ cls = "unified"
    /\ pc = "idle"
    /\ ret = Ret("call", "exception", 0)
    /\ trace # <<>>
    /\ trace[Len(trace)].ev = "read"
    /\ trace[Len(trace)].m = "nonobject"

----------------------------------------------------------------------------
\* C18: in every class that owns a subprocess, the simple class included,
\* the wait of list_tools for its response ends even when the peer never
\* writes, and list_tools then returns the empty sequence; on an error
\* envelope or a result without a "tools" sequence it returns the empty
\* sequence without raising.
C18_ListToolsReturnsEmpty ==
    /\ (op = "list" /\ pc = "read") ~> (pc # "read")
    /\ [][(/\ op = "list"
            /\ pc = "read"
            /\ pc' = "idle"
            /\ \/ process = None
               \/ stdout[process] = <<>>
               \/ Head(stdout[process]).kind # "result"
               \/ Head(stdout[process]).val # "tools_map")
           => ret' = Ret("list", "empty", ret'.rid)]_vars

----------------------------------------------------------------------------
\* The reads of stdout among the events of the operation in progress.
Reads == {i \in 1..Len(trace) : trace[i].ev = "read"}

\* C19: a blank line or a line that is not JSON read by list_tools / call_tool
\* of a unified class is never returned as a response: the call returns the
\* failure value it returns on a timeout, it has read stdout once only, and
\* the instance still holds the process the request was written to.
C19_MalformedLineIsEmptyRead ==
    (/\ cls = "unified"
     /\ pc = "idle"
     /\ op \in {"list", "call"}
     /\ \E i \in Reads : trace[i].m \in {"empty", "garbage"})
        => /\ ret = Ret(op, FailVal(op, "failed"), 0)
           /\ Cardinality(Reads) = 1
           /\ process = trace[1].p

\* call_tool of a unified class returned after reading a line that is not JSON.
C19_Witness ==
    /\ cls = "unified"
    /\ pc = "idle"
    /\ op = "call"
    /\ \E i \in Reads : trace[i].m = "garbage"

----------------------------------------------------------------------------
\* C20: when the child exits while call_tool of a unified class waits for its
\* response, the call fails with a failure value that differs from the one
\* returned on a timeout, and the instance no longer holds the dead process
\* (so that later calls fail as not connected).
C20_PeerExitFailsAndDetaches ==
    [][(/\ cls = "unified"
        /\ op = "call"
        /\ pc = "read"
        /\ pc' = "idle"
        /\ Exited(process)
        /\ stdout[process] = <<>>)
       => /\ ret'.op = "call"
          /\ ret' # TimeoutFailure
          /\ process' = None]_vars

----------------------------------------------------------------------------
\* list_tools / call_tool of a unified instance has returned after its read
\* timed out.
AfterTimeout ==
    /\ cls = "unified"
    /\ pc = "idle"
    /\ op \in {"list", "call"}
    /\ trace # <<>>
    /\ trace[Len(trace)].ev = "timeout"

\* C21: a response timeout in list_tools / call_tool of a unified class is
\* recoverable: the step that times out returns to the caller and leaves the
\* process association, the child (no signal sent, nothing closed) and its
\* input untouched; afterwards the caller can start another call or a
\* disconnect, and a disconnect that is under way can always take its next
\* step or waits for a child that has to exit (a call that is under way can
\* always take its next step: C13).
C21_TimeoutRecoverable ==
    /\ [][(/\ PendingCall
           /\ Len(trace') = Len(trace) + 1
           /\ trace'[Len(trace')].ev = "timeout")
          => /\ pc' = "idle"
             /\ process' = process
             /\ procs' = procs
             /\ stdin' = stdin]_vars
    /\ [](AfterTimeout =>
            /\ process # None
            /\ ENABLED Disconnect
            /\ request_id < MaxId => (ENABLED CallTool /\ ENABLED ListTools))
    /\ []((cls = "unified" /\ pc \in DisconnectPcs) =>
            \/ ENABLED (DisconnectBody \/ AfterSleep \/ GraceExit \/ GraceTimeout
                        \/ KillWaitExit)
            \/ MustExit(process))

\* list_tools of a unified class returned after a timeout and the child it
\* asked is still running and attached.
C21_Witness ==
    /\ AfterTimeout
    /\ op = "list"
    /\ Running(process)
    /\ procs[process].term = 0

----------------------------------------------------------------------------
\* C22: at most one request of an instance awaits its response at any time,
\* also with two caller tasks: a list_tools / call_tool request is written
\* only when no operation of the instance is under way, and while a call
\* waits for its response nobody else takes a line from the output pipe.
C22_NoPipelining ==
    /\ [][(/\ Len(sent') > Len(sent)
           /\ sent'[Len(sent')].m \in ToolMethods)
          => pc = "idle"]_vars
    /\ [][(/\ pc = "read"
           /\ process # None
           /\ process' = process
           /\ Len(stdout'[process]) < Len(stdout[process]))
          => pc' # "read"]_vars

----------------------------------------------------------------------------
\* C23: two instances are independent: a step in which the process
\* association or the request-id counter of one instance changes leaves the
\* other instance's process association, counter and children as they were,
\* and no child is ever spawned by, or attached to, both.
C23_InstancesIndependent ==
    /\ [][\A i \in Insts :
             (clients'[i] # clients[i]) =>
                 /\ clients'[Other(i)] = clients[Other(i)]
                 /\ \A p \in clients[Other(i)].spawned : procs'[p] = procs[p]]_vars
    /\ [](\A i \in Insts :
             /\ clients[i].spawned \cap clients[Other(i)].spawned = {}
             /\ clients[i].process \in clients[i].spawned \cup {None})

\* Both instances hold a running child and have handed out ids.
C23_Witness ==
    \A i \in Insts :
        /\ Running(clients[i].process)
        /\ clients[i].request_id >= 1
        /\ clients[i].request_id # clients[Other(i)].request_id

----------------------------------------------------------------------------
\* C24: the disconnect that the exit of an `async with` block runs (after
\* normal completion, after a failed connect, after an exception in the body,
\* after an explicit disconnect) returns with no process that the instance
\* spawned still running.
C24_ScopeExitLeavesNoProcess ==
    [][(DisconnectReturns /\ op = "disconnect")
          => \A p \in 1..nspawned : procs'[p].st = "exited"]_vars

----------------------------------------------------------------------------
\* The positions at which connect, list_tools and call_tool wait: for the
\* spawn, for the request to be flushed, for the response line, for the line
\* of stderr.
OperationWaits == {"c_spawn", "c_init", "drain", "read", "stderr"}

\* C25: every wait inside connect, list_tools and call_tool is bounded: an
\* operation that is at one of its waits leaves it, whatever the peer does (a
\* peer that never reads its input, a peer that never writes).
C25_WaitsBounded ==
    \A o \in {"connect", "list", "call"} :
        (op = o /\ pc \in OperationWaits) ~> (pc \notin OperationWaits)

----------------------------------------------------------------------------
----------------------------------------------------------------------------
\* C27: one chat makes at most max_iterations rounds of LLM calls and
\* executes at most max_iterations tool calls, and when every round requested
\* tools it ends with the 'Maximum iterations reached' message.
C27_ChatBounded ==
    /\ agent.iteration <= agent.max_iterations
    /\ agent.executed <= agent.max_iterations
    /\ (agent.pc = "done" /\ agent.out = "max_iterations")
          => agent.iteration = agent.max_iterations

----------------------------------------------------------------------------
\* An event named e stands in the trace tr.
HasEv(tr, e) == \E i \in 1..Len(tr) : tr[i].ev = e

FaultDisconnectPcs == DisconnectPcs \cup {"d_fbwait"}

\* The unified disconnect comes to its end, returning or raising.
UnifiedDisconnectEnds == cls = "unified" /\ pc \in FaultDisconnectPcs /\ pc' = "idle"

\* C28: in disconnect a failing step does not prevent the later ones: when
\* closing the input pipe raised on a child that still ran, the termination
\* signal was sent all the same by the time disconnect ends; when terminate
\* raised, the kill was made and the process is cleared.
C28_StepsIndependent ==
    [][UnifiedDisconnectEnds =>
          /\ process' = None
          /\ (HasEv(trace', "close_raised") /\ (HasEv(trace', "kill") \/ HasEv(trace', "kill_raised")))
                => HasEv(trace', "terminate")
          /\ HasEv(trace', "terminate_raised")
                => (HasEv(trace', "kill") \/ HasEv(trace', "kill_raised"))]_vars

\* C29: the disconnect of BaseMCPClient never raises and always ends with
\* process None, whichever of its steps raised, the kill of the fallback
\* included.
C29_DisconnectNeverRaises ==
    [][UnifiedDisconnectEnds => (ret'.val # "raised" /\ process' = None)]_vars

\* C29 witness: a disconnect has returned after terminate raised and the
\* kill of the fallback raised too; the child still runs.
C29_Witness ==
    /\ cls = "unified"
    /\ pc = "idle"
    /\ op = "disconnect"
    /\ ret = Ret("disconnect", "None", 0)
    /\ process = None
    /\ HasEv(trace, "terminate_raised")
    /\ HasEv(trace, "kill_raised")

----------------------------------------------------------------------------
\* C30: in _read_response, both after the read of the response timed out and
\* after a line that failed to parse, the error stream is read once before
\* the empty response is returned; after a line that parsed it is not read.
\* Stated of list_tools and call_tool once they have returned.
C30_StderrReadOnFailure ==
    (pc = "idle" /\ op \in {"list", "call"}) =>
        /\ (HasEv(trace, "timeout") \/ \E i \in Reads : trace[i].m = "garbage")
              => Cardinality({i \in 1..Len(trace) : trace[i].ev = "stderr"}) = 1
        /\ (\E i \in Reads : trace[i].m \in {"result", "error", "nonobject"})
              => ~HasEv(trace, "stderr")

----------------------------------------------------------------------------
Writes == {i \in 1..Len(trace) : trace[i].ev = "write"}

\* C31: in list_tools and call_tool the request is written once, as the first
\* thing the operation does with the process, and at most one line of the
\* output stream is read after it; while the operation reads, the whole
\* request line is in the child's input pipe, none of it in the transport's
\* buffer.
C31_WriteDrainedBeforeRead ==
    (op \in {"list", "call"} /\ trace # <<>>) =>
        /\ Cardinality(Writes) = 1
        /\ trace[1].ev = "write"
        /\ Cardinality(Reads) <= 1
        /\ (pc = "read" /\ process # None)
              => \A k \in 1..Len(stdin[process]) : stdin[process][k] # Buffered

----------------------------------------------------------------------------
\* C32: list_tools keeps no cache.  Every invocation on a ready instance whose
\* child runs writes one new tools/list request with an id above every id
\* written before, and the tools it returns are those of the response to that
\* request, never those of the response to an earlier invocation.
C32_ListToolsFresh ==
    /\ [][(pc = "idle" /\ op' = "list" /\ request_id' # request_id
             /\ ready /\ CanWrite(process))
            => /\ sent' = Append(sent, Sent(process, "tools/list", request_id'))
               /\ \A k \in 1..Len(sent) : sent[k].id < request_id']_vars
    /\ []((pc = "idle" /\ op = "list" /\ ready /\ ret.val = "tools")
            => ret.rid = request_id)

----------------------------------------------------------------------------
\* C33: disconnect invoked by one task while list_tools / call_tool of the
\* other task awaits its response is safe: the disconnect returns without
\* raising, with the instance without a process and the child exited; the
\* call returns a value to its caller, never an exception, and while it waits
\* a step of its code can always be taken.
C33_DisconnectDuringCallSafe ==
    \A t \in TaskIds :
        (/\ tasks[t].op = "disconnect"
         /\ tasks[t].over
         /\ tasks[Peer(t)].op \in {"list", "call"})
            => /\ tasks[t].pc = "done"
                    => /\ tasks[t].ret = Ret("disconnect", "None", 0)
                       /\ process = None
                       /\ Exited(tasks[t].p)
               /\ tasks[Peer(t)].pc = "done"
                    => tasks[Peer(t)].ret.val # "raised"
               /\ Suspended(Peer(t)) => ENABLED TaskStep(Peer(t))

\* C33 witness: the disconnect that began while the call waited has returned,
\* and the call has returned its failure value after it.
C33_Witness ==
    \E t \in TaskIds :
        /\ tasks[t].op = "disconnect"
        /\ tasks[t].over
        /\ tasks[t].pc = "done"
        /\ tasks[Peer(t)].op = "call"
        /\ tasks[Peer(t)].pc = "done"
        /\ tasks[Peer(t)].ret.val \in {"failed", "exception"}
        /\ procs[tasks[t].p].term = 1

----------------------------------------------------------------------------
\* C34: when a second disconnect begins while the first is suspended in its
\* sleep or in a wait for the exit, the child is sent the termination signal
\* at most once, neither disconnect raises, and once both have returned the
\* child has exited and the instance has no process.
C34_OverlappingDisconnects ==
    \A t \in TaskIds :
        (/\ tasks[t].op = "disconnect"
         /\ tasks[t].over
         /\ tasks[Peer(t)].op = "disconnect")
            => /\ procs[tasks[t].p].term <= 1
               /\ \A u \in TaskIds : tasks[u].ret.val # "raised"
               /\ (\A u \in TaskIds : tasks[u].pc = "done")
                    => (process = None /\ Exited(tasks[t].p))

----------------------------------------------------------------------------
\* What an instance did, with the client name of initialize and the lengths
\* of the timeouts left out.
Unnamed(obs) ==
    [i \in 1..Len(obs) |-> [e |-> obs[i].e, x |-> obs[i].x, m |-> obs[i].m]]

\* C35: git_mcp_client.GitMCPClient and unified_mcp_client.GitMCPClient are
\* the same state machine: after the same operations in the same world they
\* are in the same state, have written the same envelopes (but for the client
\* name in initialize), sent the same signals in the same order and returned
\* the same value; only the lengths of their timeouts differ.
C35_GitClientsEquivalent ==
    /\ equiv.u = equiv.g
    /\ Unnamed(equiv.ou) = Unnamed(equiv.og)
    /\ equiv.ru = equiv.rg

\* C35 witness: both clients, connected, have returned the tools of a
\* list_tools, which one read with a timeout of 100 and the other of 10.
C35_Witness ==
    /\ equiv.ru = "tools"
    /\ equiv.rg = "tools"
    /\ equiv.ou # equiv.og
    /\ equiv.u.running

----------------------------------------------------------------------------
\* C36: when __aenter__ of mcp_client.AWSDocsMCPClient fails after the
\* transport context was entered, the transport context has been left and
\* its server has exited by the time the exception reaches the caller.
C36_FailedEntryReleasesTransport ==
    (sdk.pc = "failed" /\ sdk.stdio # "unentered")
        => (sdk.stdio = "exited" /\ Exited(sdk.server))

----------------------------------------------------------------------------
\* A step in which the instance builds a request with an id: list_tools or
\* call_tool is invoked, or connect, holding a process, builds initialize.
TakesId ==
    \/ ListTools
    \/ CallTool
    \/ (op = "connect" /\ pc = "c_init" /\ pc' # "c_init")

\* The counter moves by exactly one in the steps that build a request with an
\* id and in no other step (the notification, the reads, disconnect).
CounterCountsRequests ==
    IF TakesId THEN request_id' = request_id + 1 ELSE request_id' = request_id

\* C37 as stated: the counter counts the id-bearing requests, and every
\* connect invocation increments it by exactly one, so that a connect cannot
\* return from its spawn step, where the counter is still what it was at the
\* invocation, without the increment.
C37_EveryInvocationIncrements ==
    [][/\ CounterCountsRequests
       /\ (op = "connect" /\ pc = "c_spawn" /\ pc' = "idle")
              => request_id' = request_id + 1]_vars

\* C37 amended: the counter equals the number of requests with an id the
\* instance has built: every list_tools and call_tool invocation (the ones
\* that fail fast on an instance without a process included) and every
\* connect that obtained a process increment it by exactly one; a connect
\* whose spawn fails or times out, the notification and disconnect leave it
\* unchanged.
C37_CounterCountsBuiltRequests == [][CounterCountsRequests]_vars

\* A call failed fast before any connect, and the initialize of the connect
\* that followed was written with id 2.
C37_Witness ==
    /\ Len(sent) >= 1
    /\ sent[1].m = "initialize"
    /\ sent[1].id = 2

----------------------------------------------------------------------------
\* C38: disconnect and a later connect never reset the counter: the counter
\* never decreases, the initialize request of a connection carries an id
\* greater than every id written before it, no id is written twice in the
\* life of the instance, and the process a connect attaches to the instance
\* is one that was never spawned before.
C38_ReconnectKeepsCounter ==
    /\ [](\A i, j \in 1..Len(sent) :
             /\ (i < j /\ sent[j].m = "initialize") => sent[j].id > sent[i].id
             /\ (i # j) => sent[i].id # sent[j].id
             /\ (i # j /\ sent[i].m = "initialize" /\ sent[j].m = "initialize")
                    => sent[i].p # sent[j].p)
    /\ [][/\ request_id' >= request_id
          /\ (process' # process /\ process' # None) => process' > nspawned]_vars

\* The instance connected, its first child has exited, and it connected
\* again: two initialize requests were written.
C38_Witness ==
    \E i, j \in 1..Len(sent) :
        /\ i < j
        /\ sent[i].m = "initialize"
        /\ sent[j].m = "initialize"
        /\ Exited(sent[i].p)
        /\ process = sent[j].p

----------------------------------------------------------------------------
\* The server processes the agent's clients have started.
AgentServers == UNION {clients[i].spawned : i \in Insts}

\* C39: whatever the AWS client's connect returned, the Git client is created
\* and its connect run before the block's body; cleanup_clients runs
\* disconnect on both clients, whether or not their connect succeeded; and
\* once the agent's scope is left no client holds a process and no server the
\* agent started is running.
C39_AgentScopeReleasesServers ==
    /\ (agent.scope \in {"in", "cleanup_aws", "cleanup_git", "left"})
           => \A i \in Insts : agent.results[i] # "none"
    /\ (agent.scope = "cleanup_git") => agent.cleaned = {"aws"}
    /\ (agent.scope = "left")
           => /\ agent.cleaned = Insts
              /\ \A i \in Insts : clients[i].process = None
              /\ \A p \in AgentServers : Exited(p)

\* The scope was left after the AWS client's connect had returned False with
\* its server attached and the Git client's connect True: both servers were
\* started and both have exited.
C39_Witness ==
    /\ agent.scope = "left"
    /\ agent.results["aws"] = "false"
    /\ agent.results["git"] = "true"
    /\ clients["aws"].spawned # {}
    /\ clients["git"].spawned # {}
    /\ \A p \in AgentServers : Exited(p)
====
